---- MODULE Spec2Model ----
(***************************************************************************)
(* Kaia assistant: the action planner, the command generator with its      *)
(* safety gate, and the dispatcher loop of llamaindex_ollama_rag.py.       *)
(*                                                                         *)
(* Python strings are modelled as sequences of one-character strings, so   *)
(* that lower(), strip(), startswith(), the 'in' substring test and the    *)
(* regular expressions of the source are computed character by character.  *)
(*                                                                         *)
(* Names the sources use without defining them in src (the requests import *)
(* of kaia_cli.py, config.DOWNLOADS_DIR, database_utils.get_current_user,  *)
(* kaia_cli.DEFAULT_COMMAND_MODEL) are taken as provided by the rest of    *)
(* the repository: a call through them returns a value or raises.          *)
(***************************************************************************)
EXTENDS Integers, Sequences, FiniteSets, TLC

\* ------------------------------------------------------------------------
\* Python string primitives
\* ------------------------------------------------------------------------
UpperChars == <<"A","B","C","D","E","F","G","H","I","J","K","L","M","N","O","P","Q","R","S","T","U","V","W","X","Y","Z">>
LowerChars == <<"a","b","c","d","e","f","g","h","i","j","k","l","m","n","o","p","q","r","s","t","u","v","w","x","y","z">>
DigitChars == <<"0","1","2","3","4","5","6","7","8","9">>

InSeq(c, cs) == \E i \in 1..Len(cs) : cs[i] = c

\* the function f with domain 1..n as the tuple of its values
AsTuple(f) == f \o <<>>

\* the position of x in the sequence s
IndexOf(s, x) == CHOOSE i \in 1..Len(s) : s[i] = x

\* the backtick character (TLA+ has no string literal that holds it)
Backtick == "BACKTICK"

\* str.lower() on one character
LowerChar(c) ==
    IF InSeq(c, UpperChars)
    THEN LowerChars[CHOOSE i \in 1..Len(UpperChars) : UpperChars[i] = c]
    ELSE c

\* str.lower()
Lower(s) == AsTuple([i \in 1..Len(s) |-> LowerChar(s[i])])

\* the characters matched by \s and removed by str.strip()
IsSpace(c) == c \in {" ", "\n", "\t", "\r"}

\* s[i:] with a 1-based index i
From(s, i) == IF i > Len(s) THEN <<>> ELSE SubSeq(s, i, Len(s))

\* s[:n]
Take(s, n) == IF n <= 0 THEN <<>> ELSE SubSeq(s, 1, IF n > Len(s) THEN Len(s) ELSE n)

\* s.startswith(p) tested at position i (1-based) of s
MatchAt(s, p, i) ==
    /\ i >= 1
    /\ i + Len(p) - 1 <= Len(s)
    /\ \A k \in 1..Len(p) : s[i + k - 1] = p[k]

\* s.startswith(p)
StartsWith(s, p) == MatchAt(s, p, 1)

\* p in s
Contains(s, p) == \E i \in 1..(Len(s) + 1) : MatchAt(s, p, i)

\* s.find(p) from position i: the first position >= i where p occurs, 0 if none
FindFrom(s, p, i) ==
    IF \E j \in i..(Len(s) + 1) : MatchAt(s, p, j)
    THEN CHOOSE j \in i..(Len(s) + 1) :
            /\ MatchAt(s, p, j)
            /\ \A k \in i..(j - 1) : ~MatchAt(s, p, k)
    ELSE 0

\* any(k in s for k in ks), ks a sequence of strings
ContainsAny(s, ks) == \E i \in 1..Len(ks) : Contains(s, ks[i])

\* the least and the greatest element of a non-empty set of integers
Least(S) == CHOOSE x \in S : \A y \in S : x <= y
Greatest(S) == CHOOSE x \in S : \A y \in S : x >= y

\* the characters of s at the positions of the set kept, in their order
Pick(s, kept) ==
    AsTuple([k \in 1..Cardinality(kept) |->
                s[CHOOSE p \in kept : Cardinality({q \in kept : q < p}) = k - 1]])

\* s.lstrip(), s.rstrip(), s.strip()
LStripSpace(s) ==
    LET solid == {i \in 1..Len(s) : ~IsSpace(s[i])}
    IN  IF solid = {} THEN <<>> ELSE SubSeq(s, Least(solid), Len(s))

RStripSpace(s) ==
    LET solid == {i \in 1..Len(s) : ~IsSpace(s[i])}
    IN  IF solid = {} THEN <<>> ELSE SubSeq(s, 1, Greatest(solid))

Strip(s) == RStripSpace(LStripSpace(s))

\* s.strip(c) for a single character c
LStripChar(s, c) ==
    LET other == {i \in 1..Len(s) : s[i] # c}
    IN  IF other = {} THEN <<>> ELSE SubSeq(s, Least(other), Len(s))

RStripChar(s, c) ==
    LET other == {i \in 1..Len(s) : s[i] # c}
    IN  IF other = {} THEN <<>> ELSE SubSeq(s, 1, Greatest(other))

StripChar(s, c) == RStripChar(LStripChar(s, c), c)

\* number of characters of s from position i on that satisfy \s
SpaceRunAt(s, i) ==
    LET solid == {k \in i..Len(s) : ~IsSpace(s[k])}
    IN  IF solid = {} THEN Len(s) - i + 1 ELSE Least(solid) - i

\* s.split("\n")
SplitLines(s) ==
    LET breaks == {i \in 1..Len(s) : s[i] = "\n"} \cup {0, Len(s) + 1}
    IN  AsTuple([k \in 1..(Cardinality(breaks) - 1) |->
                    LET b == CHOOSE p \in breaks : Cardinality({q \in breaks : q < p}) = k - 1
                        e == Least({q \in breaks : q > b})
                    IN  SubSeq(s, b + 1, e - 1)])


\* ------------------------------------------------------------------------
\* Action planner: generate_action_plan (llamaindex_ollama_rag.py 263-350)
\* ------------------------------------------------------------------------
\* keyword lists of the except branch, in the order the code tests them
CommandKeywords ==
    << <<"l","i","s","t">>,
       <<"f","i","n","d">>,
       <<"s","e","a","r","c","h">>,
       <<"s","h","o","w"," ","f","i","l","e","s">>,
       <<"c","h","e","c","k"," ","p","r","o","c","e","s","s","e","s">>,
       <<"d","i","s","k"," ","u","s","a","g","e">>,
       <<"m","e","m","o","r","y"," ","u","s","a","g","e">>,
       <<"c","p","u"," ","u","s","a","g","e">>,
       <<"g","p","u"," ","u","s","a","g","e">> >>
StoreKeywords ==
    << <<"r","e","m","e","m","b","e","r">>,
       <<"m","y"," ","n","a","m","e"," ","i","s">>,
       <<"i"," ","l","i","k","e">> >>
ChatKeywords ==
    << <<"w","h","a","t"," ","i","s">>,
       <<"w","h","o"," ","i","s">>,
       <<"t","e","l","l"," ","m","e"," ","a","b","o","u","t">> >>

\* a mapping {"action": a, "content": c} as the planner builds it
ActionPlan(a, c) ==
    [kind |-> "dict", keys |-> {"action", "content"}, action |-> a, content |-> c]

\* a parsed JSON value that is not a mapping (None, a list, a string, a number)
NonMapping(k) == [kind |-> k, keys |-> {}, action |-> "", content |-> <<>>]

\* a parsed JSON mapping with the given keys
Mapping(ks, a, c) == [kind |-> "dict", keys |-> ks, action |-> a, content |-> c]

\* the except branch of generate_action_plan: first matching keyword list wins
KeywordFallback(user_input) ==
    IF ContainsAny(Lower(user_input), CommandKeywords)
    THEN ActionPlan("command", user_input)
    ELSE IF ContainsAny(Lower(user_input), StoreKeywords)
    THEN ActionPlan("store_data", user_input)
    ELSE IF ContainsAny(Lower(user_input), ChatKeywords)
    THEN ActionPlan("chat", user_input)
    ELSE ActionPlan("chat", user_input)

\* message contents the chat-completion backend may return (after .strip())
ContentTexts ==
    << "not json",
      "",
      "{\"action\": \"chat\"",
      "null",
      "[\"command\", \"ls\"]",
      "\"chat\"",
      "42",
      "{}",
      "{\"content\": \"ls -a\"}",
      "{\"action\": \"delete_all\", \"content\": \"wipe\"}",
      "{\"action\": \"delete_all\"}",
      "{\"action\": \"chat\"}",
      "{\"action\": \"chat\", \"content\": \"hello\"}",
      "{\"action\": \"command\", \"content\": \"list files; rm -rf ~\"}",
      "{\"action\": \"command\", \"content\": \"ls -a\"}",
      "{\"action\": \"store_data\", \"content\": \"my favorite color is blue\"}",
      "{\"action\": \"retrieve_data\", \"content\": \"what are my preferences\"}",
      "{\"action\": \"system_status\", \"content\": \"current system status\"}",
      "{\"action\": \"sql\", \"content\": \"count facts\"}",
      "{\"action\": \"get_persona_content\", \"content\": \"who are you\"}",
      "{\"action\": \"knowledge_query\", \"content\": \"what is a monad\"}",
      "{\"action\": \"run_script\", \"content\": \"backup.sh\"}" >>

\* json.loads raised (json.JSONDecodeError)
JSONDecodeError == [kind |-> "JSONDecodeError", keys |-> {}, action |-> "", content |-> <<>>]

\* json.loads on each of the texts above
JsonLoads(text) ==
    CASE text = "not json" -> JSONDecodeError
      [] text = "" -> JSONDecodeError
      [] text = "{\"action\": \"chat\"" -> JSONDecodeError
      [] text = "null" -> NonMapping("none")
      [] text = "[\"command\", \"ls\"]" -> NonMapping("list")
      [] text = "\"chat\"" -> NonMapping("str")
      [] text = "42" -> NonMapping("num")
      [] text = "{}" -> Mapping({}, "", <<>>)
      [] text = "{\"content\": \"ls -a\"}" -> Mapping({"content"}, "", <<"l","s"," ","-","a">>)
      [] text = "{\"action\": \"delete_all\", \"content\": \"wipe\"}" -> Mapping({"action", "content"}, "delete_all", <<"w","i","p","e">>)
      [] text = "{\"action\": \"delete_all\"}" -> Mapping({"action"}, "delete_all", <<>>)
      [] text = "{\"action\": \"chat\"}" -> Mapping({"action"}, "chat", <<>>)
      [] text = "{\"action\": \"chat\", \"content\": \"hello\"}" -> Mapping({"action", "content"}, "chat", <<"h","e","l","l","o">>)
      [] text = "{\"action\": \"command\", \"content\": \"list files; rm -rf ~\"}" -> Mapping({"action", "content"}, "command", <<"l","i","s","t"," ","f","i","l","e","s",";"," ","r","m"," ","-","r","f"," ","~">>)
      [] text = "{\"action\": \"command\", \"content\": \"ls -a\"}" -> Mapping({"action", "content"}, "command", <<"l","s"," ","-","a">>)
      [] text = "{\"action\": \"store_data\", \"content\": \"my favorite color is blue\"}" -> Mapping({"action", "content"}, "store_data", <<"m","y"," ","f","a","v","o","r","i","t","e"," ","c","o","l","o","r"," ","i","s"," ","b","l","u","e">>)
      [] text = "{\"action\": \"retrieve_data\", \"content\": \"what are my preferences\"}" -> Mapping({"action", "content"}, "retrieve_data", <<"w","h","a","t"," ","a","r","e"," ","m","y"," ","p","r","e","f","e","r","e","n","c","e","s">>)
      [] text = "{\"action\": \"system_status\", \"content\": \"current system status\"}" -> Mapping({"action", "content"}, "system_status", <<"c","u","r","r","e","n","t"," ","s","y","s","t","e","m"," ","s","t","a","t","u","s">>)
      [] text = "{\"action\": \"sql\", \"content\": \"count facts\"}" -> Mapping({"action", "content"}, "sql", <<"c","o","u","n","t"," ","f","a","c","t","s">>)
      [] text = "{\"action\": \"get_persona_content\", \"content\": \"who are you\"}" -> Mapping({"action", "content"}, "get_persona_content", <<"w","h","o"," ","a","r","e"," ","y","o","u">>)
      [] text = "{\"action\": \"knowledge_query\", \"content\": \"what is a monad\"}" -> Mapping({"action", "content"}, "knowledge_query", <<"w","h","a","t"," ","i","s"," ","a"," ","m","o","n","a","d">>)
      [] text = "{\"action\": \"run_script\", \"content\": \"backup.sh\"}" -> Mapping({"action", "content"}, "run_script", <<"b","a","c","k","u","p",".","s","h">>)

\* what requests.post(...) and the unpacking of its body can come to:
\* the call raises (connection refused, timeout), raise_for_status raises
\* (non-2xx), response.json() raises (body is not JSON), the body has no
\* ["message"]["content"], or the content text is obtained
TransportFailures == <<"ConnectionError", "Timeout", "HTTPError", "BodyNotJSON", "KeyError">>

PlannerReplies ==
    [i \in 1..Len(TransportFailures) |-> [status |-> TransportFailures[i], text |-> ""]]
        \o [i \in 1..Len(ContentTexts) |-> [status |-> "ok", text |-> ContentTexts[i]]]

\* a planner that answers a text json.loads cannot parse with a plain chat plan
generate_action_plan_NoFallbackOnBadJSON(user_input, reply) ==
    IF reply.status # "ok"
    THEN KeywordFallback(user_input)
    ELSE IF JsonLoads(reply.text) = JSONDecodeError
         THEN ActionPlan("chat", user_input)
         ELSE JsonLoads(reply.text)

\* a planner whose answer to a timeout is a plain chat plan
generate_action_plan_ChatOnTimeout(user_input, reply) ==
    IF reply.status = "Timeout"
    THEN ActionPlan("chat", user_input)
    ELSE IF reply.status # "ok"
    THEN KeywordFallback(user_input)
    ELSE IF JsonLoads(reply.text) = JSONDecodeError
         THEN KeywordFallback(user_input)
         ELSE JsonLoads(reply.text)

\* generate_action_plan(user_input) for one backend reply: every exception of
\* the try block (lines 336-341) leads to the keyword lists, and the parsed
\* value is returned as json.loads gives it
generate_action_plan(user_input, reply) ==
    IF reply.status # "ok"
    THEN KeywordFallback(user_input)
    ELSE IF JsonLoads(reply.text) = JSONDecodeError
         THEN KeywordFallback(user_input)
         ELSE JsonLoads(reply.text)


\* ------------------------------------------------------------------------
\* Model availability: check_ollama_model_availability (utils.py 11-75)
\* ------------------------------------------------------------------------
DEFAULT_COMMAND_MODEL == "mistral:instruct"
FallbackModel == "llama2:7b-chat"

\* what GET /api/tags can come to: a failure, or the set of model names
TagsReplies ==
    << [status |-> "ConnectionError", models |-> {}],
       [status |-> "Timeout", models |-> {}],
       [status |-> "HTTPError", models |-> {}],
       [status |-> "ok", models |-> {}],
       [status |-> "ok", models |-> {"mistral:instruct"}],
       [status |-> "ok", models |-> {"llama2:7b-chat"}],
       [status |-> "ok", models |-> {"mistral:instruct", "llama2:7b-chat"}] >>

\* the (model, error) pair computed from one reply of the server
CheckTags(model_name, fallback_model, tags) ==
    IF tags.status # "ok" THEN [model |-> "", error |-> tags.status]
    ELSE IF model_name \in tags.models THEN [model |-> model_name, error |-> "None"]
    ELSE IF fallback_model \in tags.models THEN [model |-> fallback_model, error |-> "None"]
    ELSE IF "llama2:7b-chat" \in tags.models THEN [model |-> "llama2:7b-chat", error |-> "None"]
    ELSE IF "mistral:instruct" \in tags.models THEN [model |-> "mistral:instruct", error |-> "None"]
    ELSE [model |-> "", error |-> "No suitable Ollama model found"]

\* the value of _model_cache[(model_name, fallback_model)] before the first call
NotCached == [model |-> "", error |-> "NotCached"]

\* a check that caches the model it found but not an error
check_ollama_model_availability_ErrorsNotCached(cache, tags) ==
    IF cache # NotCached /\ cache.error = "None" THEN cache
    ELSE CheckTags(DEFAULT_COMMAND_MODEL, FallbackModel, tags)

\* check_ollama_model_availability: a cached pair is returned without a
\* request; otherwise the pair computed from the reply (and then cached)
check_ollama_model_availability(cache, tags) ==
    IF cache # NotCached THEN cache
    ELSE CheckTags(DEFAULT_COMMAND_MODEL, FallbackModel, tags)

\* ------------------------------------------------------------------------
\* Command generator and its gate: KaiaCLI.generate_command (kaia_cli.py 295-384)
\* ------------------------------------------------------------------------
Fence == <<Backtick,Backtick,Backtick>>
NL == <<"\n">>

\* position just after the opening <fence>(?:bash|sh)?\n at i, 0 if it is not there
FenceOpenEnd(s, i) ==
    IF MatchAt(s, Fence \o <<"b","a","s","h">> \o NL, i) THEN i + 8
    ELSE IF MatchAt(s, Fence \o <<"s","h">> \o NL, i) THEN i + 6
    ELSE IF MatchAt(s, Fence \o NL, i) THEN i + 4
    ELSE 0

FenceMatchAt(s, i) == FenceOpenEnd(s, i) # 0 /\ FindFrom(s, Fence, FenceOpenEnd(s, i)) # 0

\* re.search(r'<fence>(?:bash|sh)?\n(.*?)<fence>', raw, re.DOTALL): group(1).strip()
\* when there is a match, raw otherwise (lines 322-326)
CodeBlock(raw) ==
    IF \E i \in 1..Len(raw) : FenceMatchAt(raw, i)
    THEN LET i == CHOOSE i \in 1..Len(raw) :
                    FenceMatchAt(raw, i) /\ \A k \in 1..(i - 1) : ~FenceMatchAt(raw, k)
             b == FenceOpenEnd(raw, i)
             e == FindFrom(raw, Fence, b)
         IN  Strip(SubSeq(raw, b, e - 1))
    ELSE raw

UserColon == <<"u","s","e","r",":">>
AssistantColon == <<"a","s","s","i","s","t","a","n","t",":">>

\* re.sub(r'(User:|Assistant:)\s*', '', s, flags=re.IGNORECASE) (line 328):
\* every occurrence of a role echo goes, with the whitespace that follows it
RoleEchoLen(s, i) ==
    IF MatchAt(Lower(s), UserColon, i) THEN Len(UserColon)
    ELSE IF MatchAt(Lower(s), AssistantColon, i) THEN Len(AssistantColon)
    ELSE 0

RemoveRoleEchoes(s) ==
    LET removed(i) ==
            \E j \in 1..i :
                /\ RoleEchoLen(s, j) > 0
                /\ i < j + RoleEchoLen(s, j) + SpaceRunAt(s, j + RoleEchoLen(s, j))
    IN  Pick(s, {i \in 1..Len(s) : ~removed(i)})

\* re.sub(r'\s*\n\s*', ' ', s): a run of whitespace that holds a newline
\* becomes one space (line 329)
CollapseNewlines(s) ==
    LET inRun(i) ==
            /\ IsSpace(s[i])
            /\ \E j \in 1..Len(s) :
                  /\ s[j] = "\n"
                  /\ \A k \in (IF i < j THEN i ELSE j)..(IF i < j THEN j ELSE i) : IsSpace(s[k])
        first(i) == i = 1 \/ ~IsSpace(s[i - 1])
        t == AsTuple([i \in 1..Len(s) |-> IF inRun(i) THEN " " ELSE s[i]])
    IN  Pick(t, {i \in 1..Len(s) : ~inRun(i) \/ first(i)})

\* the character class [a-zA-Z0-9_./-]
IsCommandChar(c) ==
    InSeq(c, LowerChars) \/ InSeq(c, UpperChars) \/ InSeq(c, DigitChars) \/ c \in {"_", ".", "/", "-"}

\* number of leading characters of s in that class
CommandCharRun(s) ==
    LET other == {i \in 1..Len(s) : ~IsCommandChar(s[i])}
    IN  IF other = {} THEN Len(s) ELSE Least(other) - 1

\* the characters excluded by [^&;|<backtick>\n]; a newline is still consumed by \s+
IsPatternStop(c) == c \in {"&", ";", "|", Backtick}

\* number of leading characters of s that are not excluded
NonStopRun(s) ==
    LET stops == {i \in 1..Len(s) : IsPatternStop(s[i])}
    IN  IF stops = {} THEN Len(s) ELSE Least(stops) - 1

\* re.match(r'^\s*([a-zA-Z0-9_./-]+(?:\s+[^&;|<backtick>\n]*)*)', s): whether it matches
CommandPatternMatches(s) == CommandCharRun(LStripSpace(s)) > 0

\* group(1).strip() of that match (lines 331-333)
CommandPatternGroup(s) ==
    LET u == LStripSpace(s)
        n == CommandCharRun(u)
        rest == From(u, n + 1)
    IN  IF rest # <<>> /\ IsSpace(rest[1])
        THEN Strip(Take(u, n + NonStopRun(rest)))
        ELSE Take(u, n)

ConversationalPhrases ==
    << <<"t","h","a","t"," ","c","o","v","e","r","s">>,
       <<"h","e","r","e"," ","i","s"," ","t","h","e"," ","c","o","m","m","a","n","d">>,
       <<"t","h","e"," ","c","o","m","m","a","n","d"," ","i","s">>,
       <<"h","e","r","e","'","s"," ","t","h","e"," ","c","o","m","m","a","n","d">>,
       <<"t","h","i","s"," ","i","s"," ","t","h","e"," ","c","o","m","m","a","n","d">>,
       <<"i"," ","c","a","n"," ","o","n","l","y"," ","p","r","o","v","i","d","e"," ","r","a","w"," ","s","h","e","l","l"," ","c","o","m","m","a","n","d","s">>,
       <<"f","e","e","l"," ","f","r","e","e"," ","t","o"," ","a","s","k">>,
       <<"j","u","s","t"," ","r","e","m","e","m","b","e","r"," ","t","h","a","t"," ","i"," ","c","a","n"," ","o","n","l","y"," ","p","r","o","v","i","d","e"," ","r","a","w"," ","c","o","m","m","a","n","d","s">>,
       <<"k","e","e","p"," ","i","n"," ","m","i","n","d"," ","t","h","a","t"," ","i"," ","c","a","n"," ","o","n","l","y"," ","p","r","o","v","i","d","e"," ","r","a","w"," ","s","h","e","l","l"," ","c","o","m","m","a","n","d","s">>,
       <<"i","f"," ","y","o","u"," ","n","e","e","d"," ","h","e","l","p"," ","w","i","t","h"," ","m","o","r","e"," ","s","p","e","c","i","f","i","c"," ","t","a","s","k","s">>,
       <<"p","l","e","a","s","e"," ","f","i","n","d"," ","t","h","e"," ","c","o","m","m","a","n","d"," ","b","e","l","o","w">>,
       <<"t","h","e"," ","r","e","q","u","e","s","t","e","d"," ","c","o","m","m","a","n","d"," ","i","s">>,
       <<"h","e","r","e"," ","y","o","u"," ","g","o">>,
       <<"h","e","r","e","'","s"," ","w","h","a","t"," ","y","o","u"," ","a","s","k","e","d"," ","f","o","r">>,
       <<"a","s"," ","p","e","r"," ","y","o","u","r"," ","r","e","q","u","e","s","t">>,
       <<"t","h","i","s"," ","s","h","o","u","l","d"," ","d","o"," ","t","h","e"," ","t","r","i","c","k">> >>

\* re.sub(r'<fence>[\s\S]*?<fence>', '', s).strip(): every fenced stretch is removed
RECURSIVE RemoveFenced(_)
RemoveFenced(s) ==
    LET b == FindFrom(s, Fence, 1)
        e == IF b = 0 THEN 0 ELSE FindFrom(s, Fence, b + 3)
    IN  IF b = 0 \/ e = 0 THEN s
        ELSE Take(s, b - 1) \o RemoveFenced(From(s, e + 3))

\* re.sub(phrase + '.*', '', clean_command, IGNORECASE | DOTALL).strip() cuts
\* clean_command at the first occurrence of the phrase. clean_command is
\* s[:cut - 1].strip() throughout the loop, so the step is computed on cut:
\* the phrase has to occur wholly before the cut made so far
CutPhrase(lower, phrase, cut) ==
    LET n == FindFrom(lower, phrase, 1)
    IN  IF n # 0 /\ n + Len(phrase) <= cut THEN n ELSE cut

\* the loop over conversational_phrases (lines 335-355), from phrase i on
RECURSIVE CutPhrases(_, _, _)
CutPhrases(lower, i, cut) ==
    IF i > Len(ConversationalPhrases) THEN cut
    ELSE CutPhrases(lower, i + 1, CutPhrase(lower, ConversationalPhrases[i], cut))

\* clean_command after the loop, the fence pattern being its last phrase
CutConversation(s) ==
    Strip(RemoveFenced(Strip(Take(s, CutPhrases(Lower(s), 1, Len(s) + 1) - 1))))

\* clean_command.strip('"').strip("'").strip() (lines 357 and 366)
StripQuotes(s) == Strip(StripChar(StripChar(s, "\""), "'"))

\* the last line of raw that is non-empty and does not start with a role echo,
\* '' when there is none (lines 360-365)
LastCommandLine(lines) ==
    LET usable == {i \in 1..Len(lines) :
                      /\ Strip(lines[i]) # <<>>
                      /\ ~StartsWith(Lower(Strip(lines[i])), UserColon)
                      /\ ~StartsWith(Lower(Strip(lines[i])), AssistantColon)}
    IN  IF usable = {} THEN <<>> ELSE Strip(lines[Greatest(usable)])

\* the cleaning pipeline, raw model response to clean_command (lines 322-366)
CleanCommand(raw_command) ==
    LET c1 == CodeBlock(raw_command)
        c2 == Strip(RemoveRoleEchoes(c1))
        c3 == Strip(CollapseNewlines(c2))
        c4 == IF CommandPatternMatches(c3) THEN CommandPatternGroup(c3) ELSE CutConversation(c3)
        c5 == StripQuotes(c4)
    IN  IF c5 # <<>> THEN c5
        ELSE StripQuotes(LastCommandLine(SplitLines(Strip(raw_command))))

SAFE_COMMAND_ALLOWLIST ==
    << <<"l","s">>,
       <<"c","d">>,
       <<"p","w","d">>,
       <<"e","c","h","o">>,
       <<"c","a","t">>,
       <<"d","a","t","e">>,
       <<"d","f">>,
       <<"p","s">>,
       <<"f","i","n","d">>,
       <<"g","r","e","p">>,
       <<"p","a","c","m","a","n">>,
       <<"s","y","s","t","e","m","c","t","l">>,
       <<"i","p">>,
       <<"n","m","c","l","i">>,
       <<"p","l","a","s","m","a","s","h","e","l","l">>,
       <<"k","q","u","i","t","a","p","p","5">>,
       <<"k","s","t","a","r","t","5">>,
       <<"s","y","s","t","e","m","s","e","t","t","i","n","g","s","5">>,
       <<"m","o","u","n","t">>,
       <<"u","m","o","u","n","t">>,
       <<"l","s","u","s","b">>,
       <<"l","s","c","p","u">>,
       <<"f","r","e","e">>,
       <<"l","s","b","l","k">>,
       <<"j","o","u","r","n","a","l","c","t","l">>,
       <<"r","e","b","o","o","t">>,
       <<"p","o","w","e","r","o","f","f">> >>
unsafe_operators ==
    << <<"&","&">>,
       <<";">>,
       <<"|","|">>,
       <<Backtick>>,
       <<"\n">> >>

\* the (command, error) pair returned by generate_command
Accepted(clean_command) == [command |-> clean_command, error |-> "None"]
Refused(msg) == [command |-> <<>>, error |-> msg]

\* any(clean_command.startswith(cmd) for cmd in SAFE_COMMAND_ALLOWLIST) (line 371)
AllowListed(clean_command) ==
    \E i \in 1..Len(SAFE_COMMAND_ALLOWLIST) : StartsWith(clean_command, SAFE_COMMAND_ALLOWLIST[i])

\* a gate that lets an empty text through
GateWithoutEmptyTest(clean_command) ==
    IF AllowListed(clean_command) THEN Accepted(clean_command)
    ELSE IF ContainsAny(clean_command, unsafe_operators)
    THEN Refused("ERROR: Generated command contained unsafe operators.")
    ELSE Accepted(clean_command)

\* the gate of generate_command (lines 371-382)
Gate(clean_command) ==
    IF AllowListed(clean_command) THEN Accepted(clean_command)
    ELSE IF ContainsAny(clean_command, unsafe_operators)
    THEN Refused("ERROR: Generated command contained unsafe operators.")
    ELSE IF clean_command = <<>>
    THEN Refused("ERROR: Empty command generated")
    ELSE Accepted(clean_command)

\* generate_command for one availability result and one reply of the backend;
\* every exception of the try block comes back as ("", "Failed to generate command: ...")
generate_command(availability, reply) ==
    IF availability.error # "None" THEN Refused("Failed to generate command")
    ELSE IF reply.status # "ok" THEN Refused("Failed to generate command")
    ELSE Gate(CleanCommand(Strip(reply.text)))


\* ------------------------------------------------------------------------
\* Inputs of the environment
\* ------------------------------------------------------------------------
\* lines the user may type at the prompt "You: "
InputLines ==
    << <<>>,
      <<" "," ">>,
      <<"e","x","i","t">>,
      <<"Q","u","i","t">>,
      <<"/","e","x","i","t">>,
      <<"/","q","u","i","t">>,
      <<"/","h","e","l","p">>,
      <<"/","s","t","a","t","u","s">>,
      <<"/","l","s"," ","-","l","a">>,
      <<"!","l","s"," ","-","l","a">>,
      <<"s","t","a","t","u","s">>,
      <<"s","h","o","w"," ","s","y","s","t","e","m"," ","s","t","a","t","u","s">>,
      <<"h","e","l","l","o">>,
      <<"w","h","a","t"," ","i","s"," ","r","u","s","t">>,
      <<"L","i","s","t"," ","f","i","l","e","s">>,
      <<"l","i","s","t"," ","f","i","l","e","s",";"," ","r","m"," ","-","r","f"," ","~">>,
      <<"f","i","n","d"," ","x"," ","&","&"," ","y">>,
      <<"s","e","a","r","c","h"," ","l","o","g","s">>,
      <<"r","e","m","e","m","b","e","r"," ","t","h","a","t"," ","s","k","y"," ","i","s"," ","b","l","u","e">>,
      <<"m","y"," ","n","a","m","e"," ","i","s"," ","b","o","b">>,
      <<"m","y"," ","f","a","v","o","r","i","t","e"," ","c","o","l","o","r"," ","i","s"," ","b","l","u","e">>,
      <<"w","h","a","t"," ","a","r","e"," ","m","y"," ","p","r","e","f","e","r","e","n","c","e","s">>,
      <<"s","h","o","w"," ","c","o","n","t","e","n","t","s">>,
      <<"e","x","p","l","a","i","n"," ","r","u","s","t">>,
      <<"l","i","s","t"," ","m","y"," ","f","a","c","t","s">>,
      <<"w","h","a","t"," ","d","o"," ","y","o","u"," ","k","n","o","w"," ","a","b","o","u","t"," ","m","e">>,
      <<"r","u","n"," ","b","a","c","k","u","p",".","s","h">>,
      <<"c","d"," ","/","t","m","p">>,
      <<" ","h","e","l","l","o"," ">> >>

\* raw texts the command-generation model may answer with
RawCommands ==
    << <<"l","s"," ","-","l","a">>,
      <<Backtick,Backtick,Backtick,"b","a","s","h","\n","l","s"," ","-","l","a","\n",Backtick,Backtick,Backtick>>,
      <<"l","s"," ","-","l","a",";"," ","r","m"," ","-","r","f"," ","~">>,
      <<"\"","l","s"," ","-","l","a",";"," ","r","m"," ","-","r","f"," ","~","\"">>,
      <<"'","c","a","t"," ","x"," ","|"," ","s","h","'">>,
      <<"e","c","h","o"," ","$","(","r","e","b","o","o","t",")">>,
      <<"\"","l","s"," ","&","&"," ","r","e","b","o","o","t","\"">>,
      <<"\"","l","s"," ","|","|"," ","r","e","b","o","o","t","\"">>,
      <<"\"","l","s"," ",Backtick,"r","e","b","o","o","t",Backtick,"\"">>,
      <<"r","m"," ","-","r","f"," ","/"," ",";"," ","r","e","b","o","o","t">>,
      <<"\"","r","m"," ","-","r","f"," ","/"," ",";"," ","r","e","b","o","o","t","\"">>,
      <<>>,
      <<"H","e","r","e"," ","i","s"," ","t","h","e"," ","c","o","m","m","a","n","d",":"," ","l","s"," ","-","l","a">>,
      <<"p","s","q","l"," ","-","l">>,
      <<"U","s","e","r",":"," ","l","s">>,
      <<"~","/","x"," ","|"," ","s","h">>,
      <<"m","k","d","i","r"," ","p","r","o","j","e","c","t","s">>,
      <<Backtick,"r","e","b","o","o","t",Backtick>>,
      <<"\"","H","e","r","e"," ","y","o","u"," ","g","o","\"">>,
      <<"l","s"," ","-","l","a","\n","r","m"," ","x">>,
      <<"\"","l","s"," ","'","a">>,
      <<" ","L","S"," ","-","l","a"," ">>,
      <<Backtick,Backtick,Backtick,"\n","d","f"," ","-","h","\n",Backtick,Backtick,Backtick," ","H","e","r","e"," ","y","o","u"," ","g","o">>,
      <<"(","s","h",")"," ","&","&"," ","l","s">>,
      <<Backtick,Backtick,Backtick,"b","a","s","h","\n","e","c","h","o"," ","\"","h","i","\"","\n",Backtick,Backtick,Backtick>> >>

\* answers the user may type at the prompt "Execute? (y/N): "
ConfirmAnswers ==
    << <<"y">>,
      <<" ","Y"," ">>,
      <<"n">>,
      <<>>,
      <<"y","e","s">> >>

\* what POST /api/chat can come to in generate_command
CommandReplies ==
    [i \in 1..Len(TransportFailures) |-> [status |-> TransportFailures[i], text |-> <<>>]]
        \o [i \in 1..Len(RawCommands) |-> [status |-> "ok", text |-> RawCommands[i]]]


\* ------------------------------------------------------------------------
\* Command execution: KaiaCLI.execute_command (kaia_cli.py 387-409)
\* ------------------------------------------------------------------------
\* the state of shlex (posix mode) after one more character: no quotation
\* open, inside '...', inside "...", or just after a backslash
ShlexStep(state, c) ==
    CASE state = "escape" -> "none"
      [] state = "escape_in_quotes" -> "\""
      [] state = "none" -> IF c = "\\" THEN "escape" ELSE IF c \in {"'", "\""} THEN c ELSE "none"
      [] state = "'" -> IF c = "'" THEN "none" ELSE "'"
      [] state = "\"" -> IF c = "\\" THEN "escape_in_quotes" ELSE IF c = "\"" THEN "none" ELSE "\""

\* the state after the characters lo..hi of s, read from the given state
RECURSIVE ShlexRun(_, _, _, _)
ShlexRun(s, lo, hi, state) ==
    IF lo > hi THEN state
    ELSE IF lo = hi THEN ShlexStep(state, s[lo])
    ELSE ShlexRun(s, (lo + hi) \div 2 + 1, hi, ShlexRun(s, lo, (lo + hi) \div 2, state))

\* shlex.split(command) reaches the end of the text with every quotation
\* closed and no dangling escape (it raises ValueError otherwise)
ShlexClosed(s) == ShlexRun(s, 1, Len(s), "none") = "none"

\* what subprocess.run can come to once the command line is split
ExecOutcomes == <<"exit0", "CalledProcessError", "TimeoutExpired", "OSError">>

\* a run in which a non-zero exit status counts as a success
execute_command_NonZeroSucceeds(command, outcome) ==
    IF ~ShlexClosed(command)
    THEN [success |-> FALSE, stdout |-> "", stderr |-> "str(e)", started |-> FALSE, why |-> "ValueError"]
    ELSE IF outcome = "OSError"
    THEN [success |-> FALSE, stdout |-> "", stderr |-> "str(e)", started |-> FALSE, why |-> "OSError"]
    ELSE IF outcome = "TimeoutExpired"
    THEN [success |-> FALSE, stdout |-> "", stderr |-> "Command timed out", started |-> TRUE,
          why |-> outcome]
    ELSE [success |-> TRUE, stdout |-> "result.stdout", stderr |-> "result.stderr",
          started |-> TRUE, why |-> outcome]

\* execute_command: the triple (success, stdout, stderr) it returns, whether a
\* child process was started and how the call went. The replacements of ~,
\* $HOME and $USER keep the quotations of the text.
execute_command(command, outcome) ==
    IF ~ShlexClosed(command)
    THEN [success |-> FALSE, stdout |-> "", stderr |-> "str(e)", started |-> FALSE, why |-> "ValueError"]
    ELSE IF outcome = "OSError"
    THEN [success |-> FALSE, stdout |-> "", stderr |-> "str(e)", started |-> FALSE, why |-> "OSError"]
    ELSE IF outcome = "TimeoutExpired"
    THEN [success |-> FALSE, stdout |-> "", stderr |-> "Command timed out", started |-> TRUE,
          why |-> outcome]
    ELSE IF outcome = "CalledProcessError"
    THEN [success |-> FALSE, stdout |-> "e.stdout", stderr |-> "e.stderr", started |-> TRUE,
          why |-> outcome]
    ELSE [success |-> TRUE, stdout |-> "result.stdout", stderr |-> "result.stderr",
          started |-> TRUE, why |-> outcome]

\* ------------------------------------------------------------------------
\* Dispatcher: the while loop of main (llamaindex_ollama_rag.py 380-794)
\* ------------------------------------------------------------------------
\* prompts read in one session of the model
MaxTurns == 2

system_status_keywords ==
    << <<"s","t","a","t","u","s">>,
       <<"h","o","w"," ","i","s"," ","m","y"," ","c","o","m","p","u","t","e","r"," ","d","o","i","n","g">>,
       <<"s","y","s","t","e","m"," ","i","n","f","o">>,
       <<"s","h","o","w"," ","s","y","s","t","e","m"," ","s","t","a","t","u","s">>,
       <<"d","i","s","p","l","a","y"," ","s","y","s","t","e","m"," ","s","t","a","t","u","s">>,
       <<"s","y","s","t","e","m"," ","s","t","a","t","u","s">> >>

ExitTokens == { <<"e","x","i","t">>, <<"q","u","i","t">> }
HelpToken == <<"h","e","l","p">>

\* the condition of line 397: the line is handled without the planner
DirectlyHandled(q) ==
    StartsWith(q, <<"/">>) \/ ContainsAny(Lower(q), system_status_keywords)

\* cmd of line 398
DirectCmd(q) ==
    IF StartsWith(q, <<"/">>) THEN Lower(Strip(From(q, 2))) ELSE Lower(q)

\* the mounts of config.DISK_MOUNTS whose usage psutil may fail to read
DISK_MOUNTS == {"/", "/boot", "/home", "KingSpec1", "KingSpec2", "Removable"}

\* the status block of lines 406-512: an entry of all_disk_usage with
\* status 'Error' is stored in formatted_disks as a str and then indexed
\* with ['data'] or ['string'], which raises TypeError
StatusBlockRaises(failed_mounts) == failed_mounts # {}

\* plan.get("action", "chat") and plan.get("content", query) (lines 526-527)
PlanAction(p) == IF "action" \in p.keys THEN p.action ELSE "chat"
PlanContent(p, q) == IF "content" \in p.keys THEN p.content ELSE q

\* a confirmation that runs the command unless the answer is 'n'
AffirmativeUnlessNo(answer) == Strip(Lower(answer)) # <<"n">>

\* confirm == 'y' after .lower().strip() (lines 550-551)
Affirmative(answer) == Strip(Lower(answer)) = <<"y">>

\* a response text: what it says and the text it embeds
Response(what, arg) == [what |-> what, arg |-> arg]

NoPlan == NonMapping("unset")
NoReply == [status |-> "unset", text |-> ""]
NoCommandReply == [status |-> "unset", text |-> <<>>]
NotGenerated == [command |-> <<>>, error |-> "unset"]
NotAsked == [asked |-> FALSE, answer |-> <<>>]

\* ------------------------------------------------------------------------
\* The pure functions above on the inputs of the model, tabulated
\* ------------------------------------------------------------------------
\* query = input("You: ").strip() (line 383)
Queries == AsTuple([l \in 1..Len(InputLines) |-> Strip(InputLines[l])])

\* query.lower() in ['exit', 'quit'] (line 385)
exit_requested == AsTuple([q \in 1..Len(Queries) |-> Lower(Queries[q]) \in ExitTokens])

\* lines 397-398 and the test of line 406 on cmd
directly_handled == AsTuple([q \in 1..Len(Queries) |-> DirectlyHandled(Queries[q])])
direct_cmd == AsTuple([q \in 1..Len(Queries) |-> DirectCmd(Queries[q])])
direct_status ==
    AsTuple([q \in 1..Len(Queries) |->
                ContainsAny(DirectCmd(Queries[q]), system_status_keywords)])

\* plan = generate_action_plan(query) (line 525)
action_plan ==
    AsTuple([q \in 1..Len(Queries) |->
                AsTuple([r \in 1..Len(PlannerReplies) |->
                            generate_action_plan(Queries[q], PlannerReplies[r])])])

\* the pairs check_ollama_model_availability returns on a first call
AvailabilityResults ==
    AsTuple([t \in 1..Len(TagsReplies) |->
                check_ollama_model_availability(NotCached, TagsReplies[t])])

\* command, error = cli.generate_command(content) (line 538)
generated_command ==
    AsTuple([a \in 1..Len(AvailabilityResults) |->
                AsTuple([r \in 1..Len(CommandReplies) |->
                            generate_command(AvailabilityResults[a], CommandReplies[r])])])

\* confirm == 'y' (line 551)
affirmative == AsTuple([a \in 1..Len(ConfirmAnswers) |-> Affirmative(ConfirmAnswers[a])])

\* the command lines generate_command can return
ProposedCommands ==
    AsTuple([r \in 1..Len(CommandReplies) |->
                generate_command([model |-> DEFAULT_COMMAND_MODEL, error |-> "None"],
                                 CommandReplies[r]).command])

\* success, stdout, stderr = cli.execute_command(command) (line 553)
executed ==
    AsTuple([c \in 1..Len(ProposedCommands) |->
                AsTuple([o \in 1..Len(ExecOutcomes) |->
                            execute_command(ProposedCommands[c], ExecOutcomes[o])])])

VARIABLES
    pc,             \* position in the loop body
    turn,           \* iterations of the while loop started
    bound,          \* the locals among user_id, query that are assigned
    query,          \* the local query (kept from the previous iteration)
    sql_enabled,    \* SQL_RAG_ENABLED and sql_query_engine after start-up
    model_cache,    \* utils._model_cache[(DEFAULT_COMMAND_MODEL, fallback)]
    plan_reply,     \* reply of the backend to the planner in this iteration
    plan,           \* value returned by generate_action_plan
    action,         \* the local action
    content,        \* the local content
    handler,        \* branch of the dispatch that ran in this iteration
    handler_arg,    \* text handed to that branch
    command_reply,  \* reply of the backend to generate_command
    generated,      \* (command, error) returned by generate_command
    confirm,        \* answer at the prompt "Execute? (y/N)"
    gate_passed,    \* command texts the gate accepted in this iteration
    executions,     \* calls of execute_command in this iteration
    response,       \* the local response
    response_type,  \* the local response_type
    log_calls,      \* calls of log_interaction in this iteration
    exc,            \* exception on its way to the handlers of lines 777-794
    user_preferences_table, \* rows (preference_key, preference_value) of the user
    facts_table,    \* fact_text of the rows of the facts table, oldest first
    db_call         \* the last direct call of a database_utils function

vars == <<pc, turn, bound, query, sql_enabled, model_cache, plan_reply, plan, action,
          content, handler, handler_arg, command_reply, generated, confirm, gate_passed,
          executions, response, response_type, log_calls, exc, user_preferences_table,
          facts_table, db_call>>

session == <<sql_enabled, model_cache, user_preferences_table, facts_table, db_call>>
planning == <<plan_reply, plan, action, content>>
commanding == <<command_reply, generated, confirm, gate_passed, executions>>

Init ==
    /\ pc = "idle"
    /\ turn = 0
    /\ bound = {}
    /\ query = <<>>
    /\ sql_enabled \in BOOLEAN
    /\ model_cache = NotCached
    /\ plan_reply = NoReply
    /\ plan = NoPlan
    /\ action = ""
    /\ content = <<>>
    /\ handler = "none"
    /\ handler_arg = <<>>
    /\ command_reply = NoCommandReply
    /\ generated = NotGenerated
    /\ confirm = NotAsked
    /\ gate_passed = {}
    /\ executions = <<>>
    /\ response = Response("", <<>>)
    /\ response_type = ""
    /\ log_calls = <<>>
    /\ exc = "None"
    /\ user_preferences_table = {}
    /\ facts_table = <<>>
    /\ db_call = [function |-> "none", query |-> <<>>, raised |-> "None", value |-> "None",
                  write |-> "not called", rows |-> {}]

\* nothing has been planned, run or logged in the iteration yet
FreshIteration ==
    /\ plan_reply' = NoReply
    /\ plan' = NoPlan
    /\ handler' = "none"
    /\ handler_arg' = <<>>
    /\ command_reply' = NoCommandReply
    /\ generated' = NotGenerated
    /\ confirm' = NotAsked
    /\ gate_passed' = {}
    /\ executions' = <<>>
    /\ log_calls' = <<>>

\* a new iteration starts
NewIteration ==
    /\ turn' = turn + 1
    /\ FreshIteration

\* the end of the loop body is reached and control goes back to while True.
\* The locals action, content, response and response_type are dead there:
\* every path of the body assigns them before it reads them (lines 391-392,
\* 526-527, 781), so they are cleared together with the record of the iteration
LoopBack ==
    /\ pc = "bottom"
    /\ pc' = "idle"
    /\ FreshIteration
    /\ action' = ""
    /\ content' = <<>>
    /\ response' = Response("", <<>>)
    /\ response_type' = ""
    /\ UNCHANGED <<turn, bound, query, session, exc>>

\* line 382: database_utils.get_current_user() raises
GetUserRaises ==
    /\ pc = "idle" /\ turn < MaxTurns
    /\ NewIteration
    /\ pc' = "except"
    /\ exc' = "get_current_user"
    /\ UNCHANGED <<bound, query, session, action, content, response, response_type>>

\* line 383: input() raises EOFError
InputRaises ==
    /\ pc = "idle" /\ turn < MaxTurns
    /\ NewIteration
    /\ bound' = bound \cup {"user_id"}
    /\ pc' = "except"
    /\ exc' = "EOFError"
    /\ UNCHANGED <<query, session, action, content, response, response_type>>

\* line 383: Ctrl-C at the prompt, lines 777-779
KeyboardInterruptAtPrompt ==
    /\ pc = "idle" /\ turn < MaxTurns
    /\ NewIteration
    /\ bound' = bound \cup {"user_id"}
    /\ pc' = "done"
    /\ exc' = "KeyboardInterrupt"
    /\ UNCHANGED <<query, session, action, content, response, response_type>>

\* lines 382-397: a line is read, stripped and routed
ReadLine(line) ==
    /\ pc = "idle" /\ turn < MaxTurns
    /\ NewIteration
    /\ bound' = {"user_id", "query"}
    /\ query' = Queries[line]
    /\ exc' = "None"
    /\ IF exit_requested[line]
       THEN pc' = "done" /\ UNCHANGED <<response, response_type>>
       ELSE IF query' = <<>>
       THEN pc' = "idle" /\ UNCHANGED <<response, response_type>>
       ELSE /\ response' = Response("", <<>>)
            /\ response_type' = "unclassified_query"
            /\ pc' = IF directly_handled[line] THEN "direct" ELSE "plan"
    /\ UNCHANGED <<session, action, content>>

\* what a call of database_utils.log_interaction can come to
LogOutcomes == {"True", "False", "raise"}

\* a log call that leaves response_type to its default
LogCallDefaultType(site, q, r, rt, outcome) ==
    [site |-> site, user_query |-> q, kaia_response |-> r, response_type |-> "chat", result |-> outcome]

\* one call of log_interaction(user_id=..., user_query=..., kaia_response=..., response_type=...)
LogCall(site, q, r, rt, outcome) ==
    [site |-> site, user_query |-> q, kaia_response |-> r, response_type |-> rt, result |-> outcome]

\* lines 398-516: /help, the status block, or nothing for any other text
DirectCommand ==
    /\ pc = "direct"
    /\ handler' = "direct"
    /\ handler_arg' = direct_cmd[IndexOf(Queries, query)]
    /\ IF handler_arg' = HelpToken
       THEN /\ response' = Response("Available commands", <<>>)
            /\ response_type' = "help"
            /\ pc' = "directlog"
            /\ exc' = exc
       ELSE IF direct_status[IndexOf(Queries, query)]
       THEN \E failed_mounts \in SUBSET DISK_MOUNTS :
               IF StatusBlockRaises(failed_mounts)
               THEN /\ pc' = "except"
                    /\ exc' = "TypeError"
                    /\ UNCHANGED <<response, response_type>>
               ELSE /\ response' = Response("System Status", <<>>)
                    /\ response_type' = "system_status"
                    /\ pc' = "directlog"
                    /\ exc' = exc
       ELSE /\ pc' = "directlog"
            /\ UNCHANGED <<response, response_type, exc>>
    /\ UNCHANGED <<turn, bound, query, session, planning, commanding, log_calls>>

\* lines 517-522: the log call of the direct path is outside any try
DirectLog ==
    /\ pc = "directlog"
    /\ \E outcome \in LogOutcomes :
          /\ log_calls' = Append(log_calls, LogCall("direct", query, response, response_type, outcome))
          /\ IF outcome = "raise"
             THEN pc' = "except" /\ exc' = "log_interaction"
             ELSE /\ pc' = IF direct_cmd[IndexOf(Queries, query)] \in ExitTokens THEN "done" ELSE "bottom"
                  /\ exc' = exc
    /\ UNCHANGED <<turn, bound, query, session, planning, commanding, handler, handler_arg,
                   response, response_type>>

\* lines 525-527: the planner is called and its result unpacked with .get,
\* which raises AttributeError on a value that is not a mapping
PlanStep ==
    /\ pc = "plan"
    /\ \E r \in 1..Len(PlannerReplies) :
          /\ plan_reply' = PlannerReplies[r]
          /\ plan' = action_plan[IndexOf(Queries, query)][r]
          /\ IF plan'.kind = "dict"
             THEN /\ action' = PlanAction(plan')
                  /\ content' = PlanContent(plan', query)
                  /\ pc' = "dispatch"
                  /\ exc' = exc
             ELSE /\ pc' = "except"
                  /\ exc' = "AttributeError"
                  /\ UNCHANGED <<action, content>>
    /\ UNCHANGED <<turn, bound, query, session, commanding, handler, handler_arg,
                   response, response_type, log_calls>>

\* lines 529-535: store_data. handle_memory_storage has the one parameter query
\* (database_utils.py line 255) and line 532 calls it with the two arguments
\* user_id and content: the call raises TypeError before the body runs, so no
\* row is written
DispatchStore ==
    /\ pc = "dispatch" /\ action = "store_data"
    /\ handler' = "store_data"
    /\ handler_arg' = content
    /\ pc' = "except"
    /\ exc' = "TypeError"
    /\ UNCHANGED <<turn, bound, query, session, planning, commanding, response, response_type,
                   log_calls>>

\* lines 537-548: command, up to the proposal of the generated command
DispatchCommand ==
    /\ pc = "dispatch" /\ action = "command"
    /\ handler' = "command"
    /\ handler_arg' = content
    /\ \E t \in 1..Len(TagsReplies), r \in 1..Len(CommandReplies) :
          LET availability == check_ollama_model_availability(model_cache, TagsReplies[t])
              reply == CommandReplies[r]
              result == generated_command[IndexOf(AvailabilityResults, availability)][r]
          IN  /\ model_cache' = availability
              /\ command_reply' = IF availability.error = "None" THEN reply ELSE NoCommandReply
              /\ generated' = result
              /\ IF result.error # "None"
                 THEN /\ response' = Response("Command generation failed", <<>>)
                      /\ response_type' = "command_error"
                      /\ gate_passed' = gate_passed
                      /\ pc' = "log"
                 ELSE /\ gate_passed' = gate_passed \cup {result.command}
                      /\ pc' = "confirm"
                      /\ UNCHANGED <<response, response_type>>
    /\ UNCHANGED <<turn, bound, query, sql_enabled, user_preferences_table, facts_table, db_call,
                   planning, confirm,
                   executions, log_calls, exc>>

\* lines 550-567: the answer is read; 'y' runs execute_command, anything else cancels
Confirm(answer) ==
    /\ pc = "confirm"
    /\ confirm' = [asked |-> TRUE, answer |-> ConfirmAnswers[answer]]
    /\ IF affirmative[answer]
       THEN \E outcome \in 1..Len(ExecOutcomes) :
               LET result == executed[IndexOf(ProposedCommands, generated.command)][outcome]
               IN  /\ executions' = Append(executions,
                          [command |-> generated.command, site |-> "main", result |-> result])
                   /\ response' = Response(IF result.success THEN "Command executed successfully"
                                                             ELSE "Command failed", <<>>)
                   /\ response_type' = IF result.success THEN "command_executed" ELSE "command_error"
       ELSE /\ response' = Response("Command cancelled", generated.command)
            /\ response_type' = "command_cancelled"
            /\ executions' = executions
    /\ pc' = "log"
    /\ UNCHANGED <<turn, bound, query, session, planning, command_reply, generated, gate_passed,
                   handler, handler_arg, log_calls, exc>>

\* line 550: input() raises EOFError, or Ctrl-C at the prompt
ConfirmRaises ==
    /\ pc = "confirm"
    /\ \/ pc' = "except" /\ exc' = "EOFError"
       \/ pc' = "done" /\ exc' = "KeyboardInterrupt"
    /\ UNCHANGED <<turn, bound, query, session, planning, commanding, handler, handler_arg,
                   response, response_type, log_calls>>

\* lines 569-678: system_status chosen by the planner
DispatchStatus ==
    /\ pc = "dispatch" /\ action = "system_status"
    /\ handler' = "system_status"
    /\ handler_arg' = content
    /\ \E failed_mounts \in SUBSET DISK_MOUNTS :
          IF StatusBlockRaises(failed_mounts)
          THEN pc' = "except" /\ exc' = "TypeError" /\ UNCHANGED <<response, response_type>>
          ELSE /\ response' = Response("System Status", <<>>)
               /\ response_type' = "system_status"
               /\ pc' = "log"
               /\ exc' = exc
    /\ UNCHANGED <<turn, bound, query, session, planning, commanding, log_calls>>

\* lines 680-692: sql, with its own try/except
DispatchSql ==
    /\ pc = "dispatch" /\ action = "sql" /\ sql_enabled
    /\ handler' = "sql"
    /\ handler_arg' = content
    /\ \E ok \in BOOLEAN :
          /\ response' = Response(IF ok THEN "sql_response" ELSE "Database Error", <<>>)
          /\ response_type' = IF ok THEN "sql_query" ELSE "sql_error"
    /\ pc' = "log"
    /\ UNCHANGED <<turn, bound, query, session, planning, commanding, log_calls, exc>>

\* lines 694-712: retrieve_data. handle_data_retrieval has the one parameter
\* query (database_utils.py line 301) and line 697 calls it with the two
\* arguments user_id and content: the call raises TypeError
DispatchRetrieve ==
    /\ pc = "dispatch" /\ action = "retrieve_data"
    /\ handler' = "retrieve_data"
    /\ handler_arg' = content
    /\ pc' = "except"
    /\ exc' = "TypeError"
    /\ UNCHANGED <<turn, bound, query, session, planning, commanding, response, response_type,
                   log_calls>>

\* lines 714-720: get_persona_content
DispatchPersona ==
    /\ pc = "dispatch" /\ action = "get_persona_content"
    /\ handler' = "get_persona_content"
    /\ handler_arg' = content
    /\ response' = Response("kaia_persona_content", <<>>)
    /\ response_type' = "persona_retrieved"
    /\ pc' = "log"
    /\ UNCHANGED <<turn, bound, query, session, planning, commanding, log_calls, exc>>

\* the tags that have a branch of their own in the if/elif chain
OwnBranch(a) ==
    \/ a \in {"store_data", "command", "system_status", "retrieve_data", "get_persona_content"}
    \/ a = "sql" /\ sql_enabled

\* lines 723-762: the else branch, stream_chat(content)
DispatchChat ==
    /\ pc = "dispatch" /\ ~OwnBranch(action)
    /\ handler' = "chat"
    /\ handler_arg' = content
    /\ \/ pc' = "except" /\ exc' = "stream_chat" /\ UNCHANGED <<response, response_type>>
       \/ /\ response' = Response("full_response", <<>>)
          /\ response_type' = "chat"
          /\ pc' = "log"
          /\ exc' = exc
    /\ UNCHANGED <<turn, bound, query, session, planning, commanding, log_calls>>

\* lines 767-775: the log call of the planned path, inside its own try
LogStep ==
    /\ pc = "log"
    /\ \E outcome \in LogOutcomes :
          log_calls' = Append(log_calls, LogCall("log", query, response, response_type, outcome))
    /\ pc' = "bottom"
    /\ UNCHANGED <<turn, bound, query, session, planning, commanding, handler, handler_arg,
                   response, response_type, exc>>

\* the number of characters of str(e) that go to the log (line 790)
LoggedErrorLimit == 200

\* str(e) of the exception caught, by its length
ErrorMessage(n) == AsTuple([i \in 1..n |-> "e"])
ErrorMessages ==
    << ErrorMessage(0), ErrorMessage(LoggedErrorLimit), ErrorMessage(LoggedErrorLimit + 1) >>

\* an error text that goes to the log whole
UntruncatedError(msg) == msg

\* str(e)[:200] (line 790)
TruncatedError(msg) == Take(msg, LoggedErrorLimit)

\* lines 780-794: any other exception becomes a system_error response; the
\* arguments of the log call are the locals user_id and query, and reading an
\* unassigned one raises inside the inner try
ExceptStep ==
    /\ pc = "except"
    /\ \E m \in 1..Len(ErrorMessages) :
          /\ response' = Response("System error", ErrorMessages[m])
          /\ IF {"user_id", "query"} \subseteq bound
             THEN \E outcome \in LogOutcomes :
                     log_calls' = Append(log_calls,
                         LogCall("except", query,
                                 Response("System error", TruncatedError(ErrorMessages[m])),
                                 "system_error", outcome))
             ELSE log_calls' = log_calls
    /\ response_type' = "system_error"
    /\ pc' = "bottom"
    /\ exc' = "None"
    /\ UNCHANGED <<turn, bound, query, session, planning, commanding, handler, handler_arg>>

\* ------------------------------------------------------------------------
\* Toolbox: convert_video_to_gif_interactive (toolbox/video_converter.py 13-104)
\* ------------------------------------------------------------------------
DOWNLOADS_DIR == <<"/","h","o","m","e","/","u","/","D","o","w","n","l","o","a","d","s","/">>
Ffmpeg == <<"f","f","m","p","e","g"," ","-","i"," ">>
FfmpegArgsWebmToMp4 ==
    <<" ","-","v","f"," ","s","c","a","l","e","=","t","r","u","n","c","(","i","w","/","2",")","*","2",":","t","r","u","n","c","(","i","h","/","2",")","*","2"," ","-","c",":","v"," ","l","i","b","x","2","6","4"," ","-","p","r","e","s","e","t"," ","m","e","d","i","u","m"," ","-","c","r","f"," ","2","3"," ","-","c",":","a"," ","a","a","c"," ","-","b",":","a"," ","1","2","8","k"," ","-","y"," ">>
FfmpegArgsToGif ==
    <<" ","-","y"," ","-","v","f"," ","f","p","s","=","3","0",",","s","p","l","i","t","[","s","0","]","[","s","1","]",";","[","s","0","]","p","a","l","e","t","t","e","g","e","n","=","m","a","x","_","c","o","l","o","r","s","=","2","5","6",":","s","t","a","t","s","_","m","o","d","e","=","d","i","f","f","[","p","]",";","[","s","1","]","[","p","]","p","a","l","e","t","t","e","u","s","e","=","d","i","t","h","e","r","=","b","a","y","e","r",":","b","a","y","e","r","_","s","c","a","l","e","=","5",":","d","i","f","f","_","m","o","d","e","=","r","e","c","t","a","n","g","l","e"," ","-","l","o","o","p"," ","0"," ">>

\* stems of the files the user may pick in the Downloads directory
VideoStems == << <<"a">>, <<"b">> >>
ExtWebm == <<".","w","e","b","m">>
ExtMp4 == <<".","m","p","4">>
ExtTempMp4 == <<".","t","e","m","p",".","m","p","4">>
ExtGif == <<".","g","i","f">>

\* " ".join(ffmpeg_webm_to_mp4_cmd) and " ".join(ffmpeg_to_gif_cmd) (lines 53-74)
WebmToMp4Command(stem) ==
    Ffmpeg \o DOWNLOADS_DIR \o stem \o ExtWebm \o FfmpegArgsWebmToMp4 \o DOWNLOADS_DIR \o stem \o ExtTempMp4
ToGifCommand(input_for_gif, stem) ==
    Ffmpeg \o input_for_gif \o FfmpegArgsToGif \o DOWNLOADS_DIR \o stem \o ExtGif

VideoExecution(command, outcome) ==
    [command |-> command, site |-> "video_converter", result |-> execute_command(command, outcome)]

\* input_for_gif (lines 49-64): the file picked, or the temporary .mp4 made of a .webm
GifInputExts == <<ExtMp4, ExtTempMp4>>

\* the two calls of cli.execute_command (lines 59 and 75), tabulated
webm_to_mp4 ==
    AsTuple([s \in 1..Len(VideoStems) |->
                AsTuple([o \in 1..Len(ExecOutcomes) |->
                            VideoExecution(WebmToMp4Command(VideoStems[s]), ExecOutcomes[o])])])
to_gif ==
    AsTuple([s \in 1..Len(VideoStems) |->
                AsTuple([e \in 1..Len(GifInputExts) |->
                            AsTuple([o \in 1..Len(ExecOutcomes) |->
                                        VideoExecution(
                                            ToGifCommand(DOWNLOADS_DIR \o VideoStems[s] \o GifInputExts[e],
                                                         VideoStems[s]),
                                            ExecOutcomes[o])])])])

\* one call of convert_video_to_gif_interactive that converts nothing: the
\* listing raises (lines 24 and 97-100), no video file is found (lines 29-32)
\* or the selection is invalid (lines 39-41 and 90-93)
ConvertNothing ==
    /\ pc = "idle" /\ turn < MaxTurns
    /\ turn' = turn + 1
    /\ handler' = "video_converter"
    /\ handler_arg' = <<>>
    /\ executions' = <<>>
    /\ response' = Response("video conversion", <<>>)
    /\ response_type' = "video_conversion_error"
    /\ pc' = "bottom"
    /\ UNCHANGED <<bound, query, session, planning, command_reply, generated, confirm,
                   gate_passed, log_calls, exc>>

\* one call of convert_video_to_gif_interactive between two prompts: the file
\* picked is an .mp4 or a .webm, and each ffmpeg command line goes straight
\* to cli.execute_command
ConvertVideo(stem, is_webm, o1, o2) ==
    /\ pc = "idle" /\ turn < MaxTurns
    /\ turn' = turn + 1
    /\ handler' = "video_converter"
    /\ handler_arg' = VideoStems[stem]
    /\ LET first == webm_to_mp4[stem][o1]
           second == to_gif[stem][IF is_webm THEN 2 ELSE 1][o2]
       IN  /\ executions' = IF ~is_webm THEN <<second>>
                            ELSE IF ~first.result.success THEN <<first>>
                            ELSE <<first, second>>
           /\ response_type' = IF executions'[Len(executions')].result.success
                               THEN "video_conversion_success" ELSE "video_conversion_error"
    /\ response' = Response("video conversion", <<>>)
    /\ pc' = "bottom"
    /\ UNCHANGED <<bound, query, session, planning, command_reply, generated, confirm,
                   gate_passed, log_calls, exc>>

\* ------------------------------------------------------------------------
\* Structured store: database_utils.py
\* ------------------------------------------------------------------------
\* queries handle_memory_storage may be called with
StorageQueries ==
    << <<"r","e","m","e","m","b","e","r"," ","t","h","a","t"," ","s","k","y"," ","i","s"," ","b","l","u","e">>,
       <<"R","e","m","e","m","b","e","r"," ","t","h","a","t"," ","s","k","y"," ","i","s"," ","b","l","u","e">>,
       <<"r","e","m","e","m","b","e","r"," ","t","h","a","t">>,
       <<" ","r","e","m","e","m","b","e","r"," ","t","h","a","t"," "," ","S","k","y"," "," ">>,
       <<"m","y"," ","f","a","v","o","r","i","t","e"," ","c","o","l","o","r"," ","i","s"," ","b","l","u","e">>,
       <<"M","y"," ","F","a","v","o","r","i","t","e"," ","C","o","l","o","r"," ","I","s"," ","B","l","u","e">>,
       <<"m","y"," ","f","a","v","o","r","i","t","e"," ","c","o","l","o","r"," ","i","s"," ","r","e","d">>,
       <<"d","e","f","a","u","l","t"," ","e","d","i","t","o","r"," ","i","s"," ","v","i","m">>,
       <<"d","e","f","a","u","l","t"," ","e","d","i","t","o","r"," ","i","s">>,
       <<"h","e","l","l","o">>,
       <<"r","e","m","e","m","b","e","r"," ","t","h","a","t"," ","m","y"," ","f","a","v","o","r","i","t","e"," ","c","o","l","o","r"," ","i","s"," ","b","l","u","e">>,
       <<"D","E","F","A","U","L","T"," ","E","D","I","T","O","R"," ","I","S"," ","v","i","m",","," ","d","e","f","a","u","l","t"," ","e","d","i","t","o","r"," ","i","s"," ","n","a","n","o">> >>

\* queries handle_data_retrieval may be called with
RetrievalQueries ==
    << <<"l","i","s","t"," ","a","l","l"," ","f","a","c","t","s">>,
       <<"W","h","a","t"," ","F","a","c","t","s"," ","d","o"," ","y","o","u"," ","h","a","v","e">>,
       <<"w","h","a","t"," ","a","r","e"," ","m","y"," ","p","r","e","f","e","r","e","n","c","e","s">>,
       <<"w","h","a","t"," ","d","o"," ","y","o","u"," ","k","n","o","w"," ","a","b","o","u","t"," ","m","e">>,
       <<"l","i","s","t"," ","h","i","s","t","o","r","y">>,
       <<"m","y"," ","p","e","r","s","o","n","a"," ","d","e","t","a","i","l","s">>,
       <<"w","h","a","t"," ","i","s"," ","y","o","u","r"," ","c","p","u"," ","t","y","p","e">>,
       <<"h","e","l","l","o">>,
       <<>>,
       <<"a","l","l"," ","f","a","c","t","s"," ","a","n","d"," ","p","r","e","f","e","r","e","n","c","e","s">> >>

RememberThat == <<"r","e","m","e","m","b","e","r"," ","t","h","a","t">>

\* preference_patterns (lines 280-285), in the order of the dict
preference_patterns ==
    << [phrase |-> <<"f","a","v","o","r","i","t","e"," ","c","o","l","o","r"," ","i","s">>, key |-> "favorite_color"],
       [phrase |-> <<"d","e","f","a","u","l","t"," ","e","d","i","t","o","r"," ","i","s">>, key |-> "default_editor"],
       [phrase |-> <<"p","r","e","f","e","r","r","e","d"," ","o","u","t","p","u","t"," ","m","e","t","h","o","d"," ","i","s">>, key |-> "output_method"],
       [phrase |-> <<"m","y"," ","p","e","t","'","s"," ","n","a","m","e"," ","i","s">>, key |-> "pet_name"] >>

\* query.split(sep, 1): the list has a second element only when sep occurs in
\* query as it is written
SplitHasSecond(q, sep) == Contains(q, sep)

\* query.split(sep, 1)[1].strip() when that element is there
SplitSecond(q, sep) == Strip(From(q, FindFrom(q, sep, 1) + Len(sep)))

\* the first pattern whose phrase is in query_lower, 0 when there is none (line 287-288)
FirstPattern(query_lower) ==
    LET hits == {i \in 1..Len(preference_patterns) : Contains(query_lower, preference_patterns[i].phrase)}
    IN  IF hits = {} THEN 0 ELSE Least(hits)

\* what handle_memory_storage does with a query up to its write (lines 264-298):
\* the indexing [1] raises IndexError, a fact or a preference is to be written,
\* the text after the phrase is empty, or no pattern matches
StorageRequest(qtext) ==
    LET query_lower == Strip(Lower(qtext))
        p == FirstPattern(query_lower)
    IN  IF StartsWith(query_lower, RememberThat)
        THEN IF ~SplitHasSecond(qtext, RememberThat)
             THEN [kind |-> "IndexError", key |-> "", text |-> <<>>]
             ELSE IF SplitSecond(qtext, RememberThat) # <<>>
             THEN [kind |-> "fact", key |-> "", text |-> SplitSecond(qtext, RememberThat)]
             ELSE [kind |-> "empty", key |-> "", text |-> <<>>]
        ELSE IF p = 0 THEN [kind |-> "none", key |-> "", text |-> <<>>]
        ELSE IF ~SplitHasSecond(qtext, preference_patterns[p].phrase)
        THEN [kind |-> "IndexError", key |-> preference_patterns[p].key, text |-> <<>>]
        ELSE IF SplitSecond(qtext, preference_patterns[p].phrase) # <<>>
        THEN [kind |-> "preference", key |-> preference_patterns[p].key,
              text |-> SplitSecond(qtext, preference_patterns[p].phrase)]
        ELSE [kind |-> "empty", key |-> preference_patterns[p].key, text |-> <<>>]

storage_request == AsTuple([q \in 1..Len(StorageQueries) |-> StorageRequest(StorageQueries[q])])

\* what a function that opens a session and writes or reads can come to:
\* the statement is executed, it raises inside the try block, or get_session
\* raises RuntimeError before the try block (lines 92-96)
DbOutcomes == {"executed", "execute raises", "no session"}

\* phrases of handle_data_retrieval (lines 318, 341, 365-374)
FactsPhrases ==
    << <<"a","l","l"," ","f","a","c","t","s">>,
       <<"w","h","a","t"," ","f","a","c","t","s">>,
       <<"l","i","s","t"," ","a","l","l"," ","f","a","c","t","s">> >>
PreferencesPhrases ==
    << <<"p","r","e","f","e","r","e","n","c","e","s">>,
       <<"m","y"," ","p","r","e","f","e","r","e","n","c","e","s">>,
       <<"u","s","e","r"," ","p","r","e","f","e","r","e","n","c","e","s">> >>
persona_detail_keywords ==
    << [phrase |-> <<"m","y"," ","p","e","t","'","s"," ","n","a","m","e">>, key |-> "pet_name"],
       [phrase |-> <<"f","a","v","o","r","i","t","e"," ","m","u","s","i","c"," ","g","e","n","r","e">>, key |-> "favorite_music_genre"],
       [phrase |-> <<"c","o","r","e"," ","p","h","i","l","o","s","o","p","h","y">>, key |-> "core_philosophy"],
       [phrase |-> <<"s","a","r","c","a","s","m"," ","l","e","v","e","l">>, key |-> "sarcasm_level"],
       [phrase |-> <<"f","a","v","o","r","i","t","e"," ","o","p","e","r","a","t","i","n","g"," ","s","y","s","t","e","m">>, key |-> "favorite_operating_system"],
       [phrase |-> <<"c","p","u"," ","t","y","p","e">>, key |-> "cpu_type"],
       [phrase |-> <<"m","o","t","h","e","r","b","o","a","r","d"," ","m","o","d","e","l">>, key |-> "motherboard_model"],
       [phrase |-> <<"m","y"," ","p","e","r","s","o","n","a"," ","d","e","t","a","i","l","s">>, key |-> "all_persona_details"] >>

\* the branch of handle_data_retrieval a query takes (lines 314-418): the
\* facts, the preferences, the first persona keyword of the dict that is in
\* query_lower, or the default
RetrievalBranch(qtext) ==
    LET query_lower == Lower(qtext)
        hits == {i \in 1..Len(persona_detail_keywords) :
                    Contains(query_lower, persona_detail_keywords[i].phrase)}
    IN  IF ContainsAny(query_lower, FactsPhrases) THEN "facts"
        ELSE IF ContainsAny(query_lower, PreferencesPhrases) THEN "preferences"
        ELSE IF hits = {} THEN "default"
        ELSE persona_detail_keywords[Least(hits)].key

retrieval_branch == AsTuple([q \in 1..Len(RetrievalQueries) |-> RetrievalBranch(RetrievalQueries[q])])

\* the number of facts stored in one run of the model
MaxFacts == 2

\* no function of database_utils has been called directly yet
NoCall ==
    [function |-> "none", query |-> <<>>, raised |-> "None", value |-> "None",
     write |-> "not called", rows |-> {}]

\* a call of handle_memory_storage: the exception it raised or the value it
\* returned, and what store_fact or set_user_preference returned to it
StorageCall(qtext, raised, value, write) ==
    [function |-> "handle_memory_storage", query |-> qtext, raised |-> raised,
     value |-> value, write |-> write, rows |-> {}]

\* a call of handle_data_retrieval: the exception it raised or the
\* response_type of the dict it returned, and the rows its data list is made of
RetrievalCall(qtext, raised, response_type_, rows) ==
    [function |-> "handle_data_retrieval", query |-> qtext, raised |-> raised,
     value |-> response_type_, write |-> "not called", rows |-> rows]

\* INSERT ... ON CONFLICT (user_id, preference_key) DO UPDATE (lines 173-184)
Upsert(table, key, value) ==
    {r \in table : r.preference_key # key}
        \cup {[preference_key |-> key, preference_value |-> value]}

\* lines 269-271 and 290-292: the value returned by store_fact or
\* set_user_preference is not looked at, return True follows the call
Acknowledge(write) == "True"

\* handle_memory_storage(query) (lines 255-298), with store_fact (150-167) and
\* set_user_preference (169-192)
HandleMemoryStorage(q, outcome) ==
    /\ pc = "idle"
    /\ Len(facts_table) < MaxFacts
    /\ LET query_ == StorageQueries[q]
           req == storage_request[q]
       IN  CASE req.kind = "IndexError" ->
                   /\ db_call' = StorageCall(query_, "IndexError", "None", "not called")
                   /\ UNCHANGED <<facts_table, user_preferences_table>>
             [] req.kind \in {"empty", "none"} ->
                   /\ db_call' = StorageCall(query_, "None", "False", "not called")
                   /\ UNCHANGED <<facts_table, user_preferences_table>>
             [] req.kind = "fact" ->
                   IF outcome = "no session"
                   THEN /\ db_call' = StorageCall(query_, "RuntimeError", "None", "raised")
                        /\ UNCHANGED <<facts_table, user_preferences_table>>
                   ELSE IF outcome = "execute raises"
                   THEN /\ db_call' = StorageCall(query_, "None", Acknowledge("None"), "None")
                        /\ UNCHANGED <<facts_table, user_preferences_table>>
                   ELSE /\ db_call' = StorageCall(query_, "None", Acknowledge("fact_id"), "fact_id")
                        /\ facts_table' = Append(facts_table, req.text)
                        /\ UNCHANGED user_preferences_table
             [] req.kind = "preference" ->
                   IF outcome = "no session"
                   THEN /\ db_call' = StorageCall(query_, "RuntimeError", "None", "raised")
                        /\ UNCHANGED <<facts_table, user_preferences_table>>
                   ELSE IF outcome = "execute raises"
                   THEN /\ db_call' = StorageCall(query_, "None", Acknowledge("False"), "False")
                        /\ UNCHANGED <<facts_table, user_preferences_table>>
                   ELSE /\ db_call' = StorageCall(query_, "None", Acknowledge("True"), "True")
                        /\ user_preferences_table' =
                              Upsert(user_preferences_table, req.key, req.text)
                        /\ UNCHANGED facts_table
    /\ UNCHANGED <<pc, turn, bound, query, sql_enabled, model_cache, planning, commanding,
                   handler, handler_arg, response, response_type, log_calls, exc>>

\* handle_data_retrieval(query) (lines 301-418), with get_all_facts (211-221),
\* get_all_user_preferences (239-251) and get_persona_detail (196-209); found
\* says whether the persona table holds what is asked for
HandleDataRetrieval(q, outcome, found) ==
    /\ pc = "idle"
    /\ LET query_ == RetrievalQueries[q]
           branch == retrieval_branch[q]
           facts == IF outcome = "executed" THEN {facts_table[i] : i \in 1..Len(facts_table)} ELSE {}
           prefs == IF outcome = "executed" THEN user_preferences_table ELSE {}
       IN  db_call' =
              CASE branch = "default" -> RetrievalCall(query_, "None", "data_retrieval_failed", {})
                [] branch = "facts" ->
                      IF outcome = "no session" THEN RetrievalCall(query_, "RuntimeError", "None", {})
                      ELSE RetrievalCall(query_, "None", "facts_retrieved", facts)
                [] branch = "preferences" ->
                      IF outcome = "no session" THEN RetrievalCall(query_, "RuntimeError", "None", {})
                      ELSE RetrievalCall(query_, "None", "preferences_retrieved", prefs)
                [] branch = "all_persona_details" ->
                      IF outcome = "no session" THEN RetrievalCall(query_, "RuntimeError", "None", {})
                      ELSE IF outcome = "execute raises"
                      THEN RetrievalCall(query_, "SQLAlchemyError", "None", {})
                      ELSE RetrievalCall(query_, "None", "persona_details_retrieved",
                                         IF found THEN {"persona details"} ELSE {})
                [] OTHER ->
                      IF outcome = "no session" THEN RetrievalCall(query_, "RuntimeError", "None", {})
                      ELSE IF outcome = "executed" /\ found
                      THEN RetrievalCall(query_, "None", "persona_detail_retrieved", {branch})
                      ELSE RetrievalCall(query_, "None", "persona_detail_not_found", {})
    /\ UNCHANGED <<pc, turn, bound, query, sql_enabled, model_cache, planning, commanding,
                   handler, handler_arg, response, response_type, log_calls, exc,
                   facts_table, user_preferences_table>>

\* ------------------------------------------------------------------------
\* Specifications
\* ------------------------------------------------------------------------
Next ==
    \/ GetUserRaises
    \/ InputRaises
    \/ KeyboardInterruptAtPrompt
    \/ \E line \in 1..Len(InputLines) : ReadLine(line)
    \/ DirectCommand
    \/ DirectLog
    \/ PlanStep
    \/ DispatchStore
    \/ DispatchCommand
    \/ \E answer \in 1..Len(ConfirmAnswers) : Confirm(answer)
    \/ ConfirmRaises
    \/ DispatchStatus
    \/ DispatchSql
    \/ DispatchRetrieve
    \/ DispatchPersona
    \/ DispatchChat
    \/ LogStep
    \/ ExceptStep
    \/ LoopBack

\* the session of main
Spec == Init /\ [][Next]_vars

NextToolbox ==
    \/ Next
    \/ ConvertNothing
    \/ \E stem \in 1..Len(VideoStems), is_webm \in BOOLEAN,
          o1 \in 1..Len(ExecOutcomes), o2 \in 1..Len(ExecOutcomes) :
          ConvertVideo(stem, is_webm, o1, o2)

\* the session of main with the toolbox called between prompts
SpecToolbox == Init /\ [][NextToolbox]_vars

NextDatabase ==
    \/ \E q \in 1..Len(StorageQueries), outcome \in DbOutcomes : HandleMemoryStorage(q, outcome)
    \/ \E q \in 1..Len(RetrievalQueries), outcome \in DbOutcomes, found \in BOOLEAN :
          HandleDataRetrieval(q, outcome, found)

\* direct calls of handle_memory_storage and handle_data_retrieval
SpecDatabase == Init /\ [][NextDatabase]_vars

\* ------------------------------------------------------------------------
\* Properties
\* ------------------------------------------------------------------------
\* the planner has returned in this iteration
Planned == plan_reply # NoReply

\* the nine tags of the action taxonomy
KnownTags ==
    {"command", "knowledge_query", "sql", "retrieve_data", "store_data",
     "system_status", "get_persona_content", "chat", "run_script"}

\* C1: planner totality. Whatever the backend does, generate_action_plan
\* returns a mapping that has an action, and that action is one of the nine
\* known tags
C1_PlannerTotality ==
    Planned => (plan.kind = "dict" /\ "action" \in plan.keys /\ plan.action \in KnownTags)

\* the operators the gate is to refuse: ; && || backtick $( |
ShellOperators ==
    << <<";">>,
       <<"&","&">>,
       <<"|","|">>,
       <<Backtick>>,
       <<"$","(">>,
       <<"|">> >>

UnsafeRequest == <<"l","i","s","t"," ","f","i","l","e","s",";"," ","r","m"," ","-","r","f"," ","~">>

C5_MandatoryConfirmation ==
    /\ confirm.asked => (generated.error = "None" /\ generated.command \in gate_passed)
    /\ \A i \in 1..Len(executions) :
          /\ confirm.asked
          /\ Strip(Lower(confirm.answer)) = <<"y">>
          /\ executions[i].command = generated.command
    /\ (confirm.asked /\ Strip(Lower(confirm.answer)) # <<"y">>) =>
          /\ executions = <<>>
          /\ response_type = "command_cancelled"
          /\ pc = "bottom" =>
                /\ Len(log_calls) = 1
                /\ log_calls[1].user_query = query
                /\ log_calls[1].kaia_response = response
                /\ log_calls[1].response_type = "command_cancelled"

\* the answer 'yes' cancelled the command and the cancellation was logged
C5_Witness ==
    /\ pc = "bottom"
    /\ confirm = [asked |-> TRUE, answer |-> <<"y","e","s">>]
    /\ executions = <<>>
    /\ Len(log_calls) = 1
    /\ log_calls[1].response_type = "command_cancelled"

\* the chat-completion call of the planner failed, or its content is not JSON
PlannerCallFailed ==
    /\ Planned
    /\ plan_reply.status # "ok" \/ JsonLoads(plan_reply.text) = JSONDecodeError

\* C6: fallback on transport or parse failure. When the call raises, the
\* status is not 2xx or the content is not parseable JSON, the planner returns
\* a value, and that value is what the keyword fallback gives for the utterance
C6_FallbackOnFailure ==
    PlannerCallFailed => plan = KeywordFallback(query)

\* content that is not JSON came back for an utterance the fallback stores
C6_Witness ==
    /\ plan_reply = [status |-> "ok", text |-> "not json"]
    /\ plan.action = "store_data"
    /\ pc = "dispatch"

\* the backend returned JSON that is not a mapping or has no action
PlannerReplyInvalid ==
    /\ Planned
    /\ plan_reply.status = "ok"
    /\ JsonLoads(plan_reply.text) # JSONDecodeError
    /\ \/ JsonLoads(plan_reply.text).kind # "dict"
       \/ "action" \notin JsonLoads(plan_reply.text).keys

\* C7: fallback on validation failure. Parseable JSON that is not a mapping,
\* or a mapping without the key action, is discarded and the planner returns
\* the keyword-fallback result
C7_FallbackOnInvalid ==
    PlannerReplyInvalid => plan = KeywordFallback(query)

\* the plan has no action tag or a tag outside the taxonomy
Unrecognized ==
    plan.kind # "dict" \/ "action" \notin plan.keys \/ plan.action \notin KnownTags

\* C8: fail-open coercion. Once an unrecognized plan is unpacked, the
\* iteration is handled by the chat branch and the text handed to it is the
\* user's utterance
C8_FailOpenToChat ==
    (Planned /\ Unrecognized /\ pc # "dispatch") =>
        (handler = "chat" /\ handler_arg = query)

\* the rule table of the fallback as the specification lists it
KnowledgePhrases ==
    << <<"w","h","a","t"," ","i","s">>,
       <<"w","h","o"," ","i","s">>,
       <<"e","x","p","l","a","i","n">>,
       <<"t","e","l","l"," ","m","e"," ","a","b","o","u","t">>,
       <<"a","c","c","o","r","d","i","n","g"," ","t","o">>,
       <<"s","u","m","m","a","r","i","z","e">>,
       <<"s","y","n","o","p","s","i","s"," ","o","f">>,
       <<"l","i","s","t"," ","a","l","l"," ","t","h","e"," ","b","o","o","k","s">>,
       <<"p","u","l","l"," ","t","e","x","t"," ","f","r","o","m">> >>
CommandPhrases ==
    << <<"l","i","s","t"," ","f","i","l","e","s">>,
       <<"s","h","o","w"," ","c","o","n","t","e","n","t","s">>,
       <<"r","u","n"," ","c","o","m","m","a","n","d">>,
       <<"l","s"," ">>,
       <<"c","d"," ">> >>
RetrievePhrases ==
    << <<"l","i","s","t"," ","m","y"," ","f","a","c","t","s">>,
       <<"l","i","s","t"," ","h","i","s","t","o","r","y">>,
       <<"s","h","o","w"," ","i","n","t","e","r","a","c","t","i","o","n"," ","h","i","s","t","o","r","y">>,
       <<"w","h","a","t"," ","d","o"," ","y","o","u"," ","k","n","o","w"," ","a","b","o","u","t"," ","m","e">>,
       <<"m","y"," ","p","r","e","f","e","r","e","n","c","e","s">> >>
StatusPhrases ==
    << <<"s","t","a","t","u","s">>,
       <<"h","o","w"," ","i","s"," ","m","y"," ","c","o","m","p","u","t","e","r"," ","d","o","i","n","g">>,
       <<"s","y","s","t","e","m"," ","i","n","f","o">>,
       <<"s","h","o","w"," ","s","y","s","t","e","m"," ","s","t","a","t","u","s">>,
       <<"k","a","i","a"," ","s","t","a","t","u","s">> >>
RunPhrases ==
    << <<"r","u","n"," ">>,
       <<"e","x","e","c","u","t","e"," ">> >>
ScriptSuffixes ==
    << <<".","s","h">>,
       <<".","p","y">> >>

RuleTableAction(utterance) ==
    LET text == Lower(utterance)
    IN  IF ContainsAny(text, KnowledgePhrases) THEN "knowledge_query"
        ELSE IF ContainsAny(text, CommandPhrases) THEN "command"
        ELSE IF ContainsAny(text, RetrievePhrases) THEN "retrieve_data"
        ELSE IF ContainsAny(text, StatusPhrases) THEN "system_status"
        ELSE IF ContainsAny(text, RunPhrases) /\ ContainsAny(text, ScriptSuffixes) THEN "run_script"
        ELSE "chat"

\* the chat-completion call of the planner did not reach the backend
BackendUnreachable == Planned /\ plan_reply.status \in {"ConnectionError", "Timeout"}

\* C9: fallback rule table. With the backend unreachable the planner returns
\* the action of the first rule of the table that the lower-cased utterance
\* matches
C9_FallbackRuleTable ==
    BackendUnreachable => (plan.kind = "dict" /\ plan.action = RuleTableAction(query))

\* C10: fallback default. With the backend unreachable, an utterance that
\* matches none of the keyword sets of the table gives the action chat with
\* the utterance, unchanged, as content
C10_FallbackDefault ==
    (BackendUnreachable /\ RuleTableAction(query) = "chat") => plan = ActionPlan("chat", query)

\* the replies of the planner's call that stand for an unreachable backend
UnreachableReplies ==
    {r \in 1..Len(PlannerReplies) : PlannerReplies[r].status \in {"ConnectionError", "Timeout"}}

BackendCallsFailed ==
    /\ Planned
    /\ plan_reply.status # "ok"
    /\ generated # NotGenerated =>
          \/ model_cache.error \in {"ConnectionError", "Timeout", "HTTPError"}
          \/ command_reply.status \notin {"ok", "unset"}

\* C12: backend outage. With every call to the backend failing, the iteration
\* still ends with a response of some handler that is no error: the response
\* type that goes to the log is neither command_error nor system_error, and
\* the loop is not left
C12_OutageStillAnswers ==
    BackendCallsFailed =>
        /\ pc # "done"
        /\ pc \in {"log", "bottom"} => response_type \notin {"command_error", "system_error"}

\* the call of log_interaction made last in this step
LastLogCall == log_calls'[Len(log_calls')]

\* an exception raised by the branch that ran is on its way to the handlers
HandlerRaised == pc = "except" /\ handler # "none"

\* C13: session survival. An exception raised inside a handler does not end
\* the loop: the next step gives the response type system_error, hands the
\* error to log_interaction with at most 200 characters of its message, and
\* leads to the end of the loop body, from where the loop goes back to its
\* prompt. The loop is left only on an exit or quit token or on Ctrl-C
C13_SessionSurvival ==
    [][ /\ HandlerRaised =>
              /\ pc' = "bottom"
              /\ response_type' = "system_error"
              /\ Len(log_calls') = Len(log_calls) + 1
              /\ LastLogCall.user_query = query
              /\ LastLogCall.response_type = "system_error"
              /\ LastLogCall.kaia_response.what = "System error"
              /\ Len(LastLogCall.kaia_response.arg) <= LoggedErrorLimit
              /\ LastLogCall.kaia_response.arg = Take(response'.arg, LoggedErrorLimit)
        /\ pc = "bottom" => pc' = "idle"
        /\ pc' = "done" =>
              \/ exc' = "KeyboardInterrupt"
              \/ Lower(query') \in ExitTokens
              \/ handler' = "direct" /\ handler_arg' \in ExitTokens
      ]_vars

\* a handler raised an exception with a message of 201 characters: 200 of them
\* went to the log and the loop is at the end of its body
C13_Witness ==
    /\ pc = "bottom"
    /\ handler = "chat"
    /\ response_type = "system_error"
    /\ Len(response.arg) = LoggedErrorLimit + 1
    /\ Len(log_calls) = 1
    /\ Len(log_calls[1].kaia_response.arg) = LoggedErrorLimit

\* C14: exit tokens. A line that is exit or quit ends the loop when it is
\* read, and so does /exit or /quit: once the direct handling has taken it,
\* the iteration can only log it and leave the loop
C14_ExitTerminates ==
    /\ Lower(query) \in ExitTokens => pc = "done"
    /\ (handler = "direct" /\ handler_arg \in ExitTokens) => pc \in {"directlog", "done"}

\* the line begins with one of the prefixes of a direct command
DirectPrefix(q) == StartsWith(q, <<"/">>) \/ StartsWith(q, <<"!">>)

\* C15: idle routing. A line that is read and is neither empty nor an exit
\* token goes to the direct handling exactly when it begins with / or !, and
\* to the planner otherwise; a direct command that is neither help nor a
\* status request has been handed to the command generator when its
\* iteration ends
C15_IdleRouting ==
    /\ pc \in {"direct", "plan"} => (pc = "direct" <=> DirectPrefix(query))
    /\ (pc = "bottom" /\ handler = "direct" /\ handler_arg # HelpToken
          /\ ~ContainsAny(handler_arg, system_status_keywords)) => generated # NotGenerated

\* a handler of the planned path has run in the iteration
Dispatched == handler \notin {"none", "direct"}

\* the one log call of the iteration carries the query, the response type and
\* the response text of the iteration (the text of a system error cut to
\* the logged length)
LoggedTurn ==
    /\ Len(log_calls) = 1
    /\ log_calls[1].user_query = query
    /\ log_calls[1].response_type = response_type
    /\ log_calls[1].kaia_response.what = response.what
    /\ log_calls[1].kaia_response.arg =
          IF response_type = "system_error" THEN Take(response.arg, LoggedErrorLimit)
          ELSE response.arg

\* C16: turn synchrony. An iteration that reaches the dispatch runs a handler,
\* and only one; a handler that returns leaves a response text and a response
\* type of its own; the iteration ends with exactly one log call, made with
\* its query, response text and response type; and the prompt is reached
\* again only from the end of the iteration, after that call
C16_TurnSynchrony ==
    [][ /\ pc = "dispatch" => (handler = "none" /\ handler' # "none")
        /\ (handler # "none" /\ handler' # handler) => (pc = "bottom" /\ handler' = "none")
        /\ (pc' = "log" /\ pc # "log") =>
              (Dispatched' /\ response_type' \notin {"", "unclassified_query", "system_error"}
               /\ log_calls' = <<>>)
        /\ (pc' = "bottom" /\ Dispatched') => LoggedTurn'
        /\ (Dispatched /\ pc' = "idle") => (pc = "bottom" /\ LoggedTurn) ]_vars
C16_Witness ==
    /\ pc = "bottom" /\ turn = 2 /\ handler = "command" /\ response_type = "command_executed"
    /\ LoggedTurn /\ log_calls[1].site = "log"

\* C17: result shape of the command generator. Whatever the availability
\* check and the backend answered, the pair generate_command returned has
\* exactly one populated slot: a non-empty command with no error, or an empty
\* command with a non-empty error message
C17_GeneratorResultShape ==
    generated # NotGenerated =>
        \/ generated.command # <<>> /\ generated.error = "None"
        \/ generated.command = <<>> /\ generated.error \notin {"None", ""}
C17_Witness ==
    /\ generated = Refused("ERROR: Empty command generated")
    /\ command_reply.status = "ok" /\ model_cache.error = "None"

LsLa == <<"l","s"," ","-","l","a">>
RmRfReboot == <<"r","m"," ","-","r","f"," ","/"," ",";"," ","r","e","b","o","o","t">>

\* the command generator has answered from the given text of the model
GeneratedFrom(text) ==
    /\ generated # NotGenerated
    /\ model_cache.error = "None"
    /\ command_reply = [status |-> "ok", text |-> text]

Fenced(tag, interior) == Fence \o tag \o NL \o interior \o NL \o Fence
BashTag == <<"b","a","s","h">>
EchoHi == <<"e","c","h","o"," ","\"","h","i","\"">>

\* single command lines the model may put inside a fence
FencedInteriors == {LsLa, EchoHi}

FavoriteColorIsBlue ==
    <<"m","y"," ","f","a","v","o","r","i","t","e"," ","c","o","l","o","r"," ","i","s"," ","b","l","u","e">>
WhatAreMyPreferences ==
    <<"w","h","a","t"," ","a","r","e"," ","m","y"," ","p","r","e","f","e","r","e","n","c","e","s">>

\* the row the sentence 'my favorite color is blue' stands for
BlueRow == [preference_key |-> "favorite_color", preference_value |-> <<"b","l","u","e">>]

\* C20: storage round trip. Once the store_data branch has handled the content
\* 'my favorite color is blue', the call has returned and the preferences of
\* the user hold the row for blue; and with that row in the store, the
\* retrieve_data branch handling 'what are my preferences' returns the
\* preferences rather than raising
C20_StorageRoundTrip ==
    /\ (handler = "store_data" /\ handler_arg = FavoriteColorIsBlue) =>
          (pc # "except" /\ BlueRow \in user_preferences_table)
    /\ (handler = "retrieve_data" /\ handler_arg = WhatAreMyPreferences
          /\ BlueRow \in user_preferences_table) =>
          (pc # "except" /\ (pc \in {"log", "bottom"} => response_type = "preferences_retrieved"))

\* the five categories of the retrieval classification
RetrievalCategories == {"about_me", "preferences", "facts", "history", "unknown"}

\* the category a response_type of handle_data_retrieval stands for; the
\* response types of the persona branches stand for none of the five
CategoryOf(rt) ==
    CASE rt = "facts_retrieved" -> "facts"
      [] rt = "preferences_retrieved" -> "preferences"
      [] rt = "data_retrieval_failed" -> "unknown"
      [] OTHER -> rt

\* handle_data_retrieval has been called
Retrieved == db_call.function = "handle_data_retrieval"

\* C21: totality of the retrieval classification. A call of
\* handle_data_retrieval does not raise and resolves its query to one of the
\* five categories, and to unknown when no phrase of the function is in the query
C21_RetrievalTotality ==
    Retrieved =>
        /\ db_call.raised = "None"
        /\ CategoryOf(db_call.value) \in RetrievalCategories
        /\ RetrievalBranch(db_call.query) = "default" => CategoryOf(db_call.value) = "unknown"

WhatDoYouKnowAboutMe ==
    <<"w","h","a","t"," ","d","o"," ","y","o","u"," ","k","n","o","w"," ","a","b","o","u","t"," ","m","e">>

\* C22: phrase precedence. The retrieval query 'what do you know about me' is
\* resolved to about_me, not to unknown or to a retrieval failure
C22_PhrasePrecedence ==
    (Retrieved /\ db_call.query = WhatDoYouKnowAboutMe) =>
        (db_call.raised = "None" /\ CategoryOf(db_call.value) = "about_me")

SlashStatus == <<"/","s","t","a","t","u","s">>

\* C23: direct status. Once the direct handling has dealt with the line
\* '/status', whatever the snapshot of the disks was, the response is the
\* status block and its type is system_status
C23_DirectStatus ==
    (query = SlashStatus /\ handler = "direct" /\ log_calls = <<>>) =>
        (pc = "directlog" /\ response_type = "system_status" /\ response.what = "System Status")

\* the first whitespace-delimited token of a command line
FirstToken(s) ==
    LET spaces == {i \in 1..Len(s) : IsSpace(s[i])}
    IN  IF spaces = {} THEN s ELSE Take(s, Least(spaces) - 1)

FailureAsValue(r) ==
    /\ r.why \in {"exit0", "CalledProcessError", "TimeoutExpired", "OSError", "ValueError"}
    /\ r.success <=> r.why = "exit0"
    /\ r.why = "CalledProcessError" => (r.stdout = "e.stdout" /\ r.stderr = "e.stderr")
    /\ r.why = "TimeoutExpired" => (r.stdout = "" /\ r.stderr = "Command timed out")
    /\ r.why \in {"OSError", "ValueError"} => (r.stdout = "" /\ r.stderr = "str(e)")

\* C25: a failed execution is a value. Every call of execute_command of the
\* command branch returns a triple: a non-zero exit gives (False, stdout,
\* stderr), a timeout (False, '', timeout message), any other failure
\* (False, '', error text); after a failed call the iteration goes on to its
\* log step with the response type command_error, and the loop is not left
C25_FailureIsValue ==
    \A i \in 1..Len(executions) :
        executions[i].site = "main" =>
            /\ FailureAsValue(executions[i].result)
            /\ ~executions[i].result.success =>
                  (pc \in {"log", "bottom"} /\ response_type = "command_error"
                   /\ response.what = "Command failed")
C25_Witness ==
    /\ pc = "bottom" /\ Len(executions) = 1 /\ executions[1].site = "main"
    /\ executions[1].result.why = "TimeoutExpired" /\ response_type = "command_error"

\* C26: the availability of the model is fixed by the first check. Once
\* check_ollama_model_availability has returned, the cached pair (model, error)
\* never changes, whatever GET /api/tags would answer later; and with an error
\* cached, every later call of generate_command returns a generation error
C26_AvailabilityFixedByFirstCheck ==
    [][ model_cache # NotCached =>
            /\ model_cache' = model_cache
            /\ (model_cache.error # "None" /\ generated' # NotGenerated) =>
                  generated' = Refused("Failed to generate command") ]_vars
C26_Witness ==
    /\ turn = 2 /\ pc = "dispatch" /\ action = "command"
    /\ model_cache = [model |-> "", error |-> "Timeout"]

\* the iteration failed at the head of the loop: get_current_user or input
\* raised an exception other than KeyboardInterrupt
LoopHeadFailed == pc = "except" /\ handler = "none" /\ exc \in {"get_current_user", "EOFError"}

\* C27: loop progress. The loop does not go on without accepting input: an
\* iteration fails at the head of the loop only if it is the first one or a
\* line has been read before, never as the successor of an iteration that
\* failed there too
C27_LoopProgress == LoopHeadFailed => (turn = 1 \/ "query" \in bound)

\* C28: log attribution. A call of log_interaction is made only in an
\* iteration that has read its line, and carries that line as user_query: no
\* call is made from an iteration that failed before its line was read, with
\* the query of an earlier iteration
C28_LogAttribution ==
    [][ Len(log_calls') > Len(log_calls) =>
            /\ log_calls'[Len(log_calls')].user_query = query
            /\ ~LoopHeadFailed ]_vars

\* handle_memory_storage has been called
Stored == db_call.function = "handle_memory_storage"

\* the phrase recognised in the lower-cased query: 'remember that' at its
\* start, or else the first preference phrase in it; <<>> when there is none
RecognisedPhrase(q) ==
    LET lower == Strip(Lower(q))
    IN  IF StartsWith(lower, RememberThat) THEN RememberThat
        ELSE IF FirstPattern(lower) = 0 THEN <<>>
        ELSE preference_patterns[FirstPattern(lower)].phrase

\* the text that follows the recognised phrase in the query, whatever the
\* letter case the phrase is written in
TextAfterPhrase(q) ==
    Strip(From(q, FindFrom(Lower(q), RecognisedPhrase(q), 1) + Len(RecognisedPhrase(q))))

\* C29: storage parsing is case-insensitive and total. A call of
\* handle_memory_storage raises no exception from its parsing, and when a
\* storage phrase is recognised and text follows it, that text has been
\* handed to store_fact or set_user_preference
C29_StorageParsing ==
    Stored =>
        /\ db_call.raised \notin {"IndexError"}
        /\ (RecognisedPhrase(db_call.query) # <<>> /\ TextAfterPhrase(db_call.query) # <<>>
              /\ db_call.raised = "None") =>
              /\ db_call.write # "not called"
              /\ StorageRequest(db_call.query).text = TextAfterPhrase(db_call.query)

\* C30: the acknowledgement of a storage request is truthful.
\* handle_memory_storage returns True only if store_fact returned an id or
\* set_user_preference returned True
C30_TruthfulAcknowledgement ==
    (Stored /\ db_call.value = "True") => db_call.write \in {"fact_id", "True"}
====
